---- MODULE Spec2Model ----
(***************************************************************************)
(* A model of Gutenberg's content pipeline: Page::parse, Page::from_file   *)
(* and Page::render_markdown (components/content/src/page.rs) and the      *)
(* staleness-aware asset copy (components/utils/src/fs.rs).                *)
(*                                                                         *)
(* Strings are sequences of one-character strings, so that trimming,       *)
(* slugifying, splitting and joining are computed character by character.  *)
(***************************************************************************)
EXTENDS Integers, Sequences, FiniteSets, TLC

(***************************************************************************)
(* Bounds of the model.                                                    *)
(***************************************************************************)
\* longest front-matter `slug` / `path` value that is enumerated
MaxLen == 3

\* latest modification time a file is given
MaxMtime == 2

\* number of events the watcher delivers while the site is served
MaxEvents == 3

\* longest the queue between the watcher and the serve loop gets
MaxQueue == 2

\* how many pages the site has at most
MaxPages == 3

\* how many sections the library has at most
MaxSections == 3

\* how many pages the library has at most
MaxLibraryPages == 2

\* how deep a page's earlier and later links are followed at most
MaxDepth == 2

(***************************************************************************)
(* Characters and strings.                                                 *)
(***************************************************************************)
LowerSeq ==
  << "a", "b", "c", "d", "e", "f", "g", "h", "i", "j", "k", "l", "m",
     "n", "o", "p", "q", "r", "s", "t", "u", "v", "w", "x", "y", "z" >>

UpperSeq ==
  << "A", "B", "C", "D", "E", "F", "G", "H", "I", "J", "K", "L", "M",
     "N", "O", "P", "Q", "R", "S", "T", "U", "V", "W", "X", "Y", "Z" >>

Digits == { "0", "1", "2", "3", "4", "5", "6", "7", "8", "9" }

Range(s) == { s[i] : i \in DOMAIN s }

IsLower(c) == c \in Range(LowerSeq)

IsUpper(c) == c \in Range(UpperSeq)

ToLower(c) ==
  IF IsUpper(c) THEN LowerSeq[CHOOSE i \in DOMAIN UpperSeq : UpperSeq[i] = c]
  ELSE c

\* char::is_whitespace, on the characters the model uses
IsWhitespace(c) == c \in { " ", "\t", "\n" }

\* the characters front-matter values are built from
Alphabet == { "a", "B", " ", "/" }

RECURSIVE StringsOfLen(_)
StringsOfLen(n) ==
  IF n = 0 THEN { << >> }
  ELSE { Append(s, c) : s \in StringsOfLen(n - 1), c \in Alphabet }

Strings == UNION { StringsOfLen(n) : n \in 0..MaxLen }

\* Option<T>
None == [some |-> FALSE, v |-> << >>]

Some(x) == [some |-> TRUE, v |-> x]

EndsWith(s, c) == Len(s) > 0 /\ s[Len(s)] = c

StartsWith(s, c) == Len(s) > 0 /\ s[1] = c

\* str::trim_left / str::trim_right / str::trim
RECURSIVE TrimLeft(_)
TrimLeft(s) ==
  IF Len(s) > 0 /\ IsWhitespace(s[1]) THEN TrimLeft(Tail(s)) ELSE s

RECURSIVE TrimRight(_)
TrimRight(s) ==
  IF Len(s) > 0 /\ IsWhitespace(s[Len(s)])
  THEN TrimRight(SubSeq(s, 1, Len(s) - 1))
  ELSE s

Trim(s) == TrimRight(TrimLeft(s))

\* str::trim_left_matches(c)
RECURSIVE TrimLeftMatches(_, _)
TrimLeftMatches(s, c) ==
  IF Len(s) > 0 /\ s[1] = c THEN TrimLeftMatches(Tail(s), c) ELSE s

\* [String]::join(sep)
RECURSIVE Join(_, _)
Join(ss, sep) ==
  IF Len(ss) = 0 THEN << >>
  ELSE IF Len(ss) = 1 THEN ss[1]
  ELSE ss[1] \o sep \o Join(Tail(ss), sep)

\* str::split(c): the pieces between the occurrences of c, empty ones kept
RECURSIVE SplitFrom(_, _, _, _)
SplitFrom(s, c, i, cur) ==
  IF i > Len(s) THEN << cur >>
  ELSE IF s[i] = c THEN << cur >> \o SplitFrom(s, c, i + 1, << >>)
  ELSE SplitFrom(s, c, i + 1, Append(cur, s[i]))

Split(s, c) == SplitFrom(s, c, 1, << >>)

\* Iterator::filter(|p| !p.is_empty())
RECURSIVE FilterNonEmpty(_)
FilterNonEmpty(ss) ==
  IF Len(ss) = 0 THEN << >>
  ELSE IF Len(ss[1]) = 0 THEN FilterNonEmpty(Tail(ss))
  ELSE << ss[1] >> \o FilterNonEmpty(Tail(ss))

\* slug::slugify: ASCII letters and digits are kept (lowercased), every run of
\* other characters becomes one '-', and no '-' leads or trails
RECURSIVE SlugifyFrom(_, _, _, _)
SlugifyFrom(s, i, slug, prev_is_dash) ==
  IF i > Len(s) THEN slug
  ELSE IF IsLower(s[i]) \/ s[i] \in Digits
       THEN SlugifyFrom(s, i + 1, Append(slug, s[i]), FALSE)
  ELSE IF IsUpper(s[i])
       THEN SlugifyFrom(s, i + 1, Append(slug, ToLower(s[i])), FALSE)
  ELSE IF ~prev_is_dash
       THEN SlugifyFrom(s, i + 1, Append(slug, "-"), TRUE)
  ELSE SlugifyFrom(s, i + 1, slug, prev_is_dash)

slugify(s) ==
  LET string == SlugifyFrom(s, 1, << >>, TRUE)
  IN  IF EndsWith(string, "-") THEN SubSeq(string, 1, Len(string) - 1)
      ELSE string

(***************************************************************************)
(* Names and paths.  A path is its sequence of components, as              *)
(* std::path::Path::components yields them; a Normal component holds its   *)
(* stem and its extension.                                                 *)
(***************************************************************************)
StrContent == << "c", "o", "n", "t", "e", "n", "t" >>

StrPosts == << "p", "o", "s", "t", "s" >>

StrIntro == << "i", "n", "t", "r", "o" >>

StrWithAssets == << "W", "i", "t", "h", " ", "A", "s", "s", "e", "t", "s" >>

StrIndex == << "i", "n", "d", "e", "x" >>

StrStart == << "s", "t", "a", "r", "t" >>

StrFileWithSpace == << " ", "f", "i", "l", "e", " ", "w", "i", "t", "h", " ", "s", "p", "a", "c", "e" >>

StrBang == << "!" >>

StrMd == << "m", "d" >>

StrHelloWorld == << "h", "e", "l", "l", "o", "-", "w", "o", "r", "l", "d" >>

Normal(name, ext) == [kind |-> "Normal", name |-> name, ext |-> ext]

Dir(name) == Normal(name, << >>)

CurDir == [kind |-> "CurDir", name |-> << ".">>, ext |-> << >>]

RootDir == [kind |-> "RootDir", name |-> << "/" >>, ext |-> << >>]

\* the directories a content file is read from
DirPaths ==
  { << >>,
    << CurDir >>,
    << RootDir >>,
    << Dir(StrContent) >>,
    << Dir(StrContent), Dir(StrPosts) >>,
    << Dir(StrContent), Dir(StrPosts), Dir(StrIntro) >>,
    << Dir(StrContent), Dir(StrPosts), Dir(StrWithAssets) >> }

FileStems == { StrStart, StrIndex, StrFileWithSpace, StrBang }

FilePaths == { Append(d, Normal(n, StrMd)) : d \in DirPaths, n \in FileStems }

\* Path::parent: None for the empty path and for a path that ends in a root
PathParent(p) ==
  IF Len(p) = 0 \/ p[Len(p)].kind = "RootDir" THEN None
  ELSE Some(SubSeq(p, 1, Len(p) - 1))

\* the text of a component (OsStr::to_str)
ComponentStr(c) ==
  IF c.kind = "Normal" /\ Len(c.ext) > 0 THEN c.name \o << "." >> \o c.ext
  ELSE c.name

\* Path::file_name: the last component when it is a Normal one
PathFileName(p) ==
  IF Len(p) > 0 /\ p[Len(p)].kind = "Normal" THEN Some(ComponentStr(p[Len(p)]))
  ELSE None

\* Path::file_stem
PathFileStem(p) ==
  IF Len(p) > 0 /\ p[Len(p)].kind = "Normal" THEN Some(p[Len(p)].name)
  ELSE None

\* find_content_components: the directory names below the first "content"
RECURSIVE ContentComponentsFrom(_, _, _)
ContentComponentsFrom(dirs, i, is_in_content) ==
  IF i > Len(dirs) THEN << >>
  ELSE IF is_in_content
       THEN << ComponentStr(dirs[i]) >> \o ContentComponentsFrom(dirs, i + 1, TRUE)
  ELSE ContentComponentsFrom(dirs, i + 1, ComponentStr(dirs[i]) = StrContent)

find_content_components(path) ==
  ContentComponentsFrom(PathParent(path).v, 1, FALSE)

\* FileInfo::new_page: the directory of an index file is not one of its
\* components, and its parent is the grandparent directory
FileInfo_new_page(path) ==
  LET name == PathFileStem(path).v
      components == find_content_components(path)
      parent == PathParent(path).v
      is_asset_folder == Len(components) > 0 /\ name = StrIndex
  IN  [ path |-> path,
        parent |-> IF is_asset_folder THEN PathParent(parent).v ELSE parent,
        name |-> name,
        components |-> IF is_asset_folder
                       THEN SubSeq(components, 1, Len(components) - 1)
                       ELSE components ]

(***************************************************************************)
(* Configuration.                                                          *)
(***************************************************************************)
UrlHello == << "h", "t", "t", "p", ":", "/", "/", "h", "e", "l", "l", "o", ".", "c", "o", "m", "/" >>

UrlWebsite == << "h", "t", "t", "p", ":", "/", "/", "a", "-", "w", "e", "b", "s", "i", "t", "e", ".", "c", "o", "m" >>

BaseUrls == { UrlHello, UrlWebsite }

\* Config::make_permalink: the base URL joined with the path by one '/'
make_permalink(base_url, path) ==
  LET trailing_bit ==
        IF EndsWith(path, "/") \/ Len(path) = 0 THEN << >> ELSE << "/" >>
  IN  IF EndsWith(base_url, "/") /\ path = << "/" >> THEN base_url
      ELSE IF path = << "/" >> THEN base_url \o << "/" >>
      ELSE IF EndsWith(base_url, "/") /\ StartsWith(path, "/")
           THEN base_url \o Tail(path) \o trailing_bit
      ELSE IF EndsWith(base_url, "/") THEN base_url \o path \o trailing_bit
      ELSE IF StartsWith(path, "/") THEN base_url \o path \o trailing_bit
      ELSE base_url \o << "/" >> \o path \o trailing_bit

(***************************************************************************)
(* Content files.  The text of a file is its sequence of lines; a line is  *)
(* the front-matter delimiter, a `key = "value"` line of the front matter, *)
(* or a line of the markdown body.                                         *)
(***************************************************************************)
Delim == [t |-> "+++", v |-> << >>]

Blank == [t |-> "blank", v |-> << >>]

SlugLine(s) == [t |-> "slug", v |-> s]

PathLine(s) == [t |-> "path", v |-> s]

Text == [t |-> "text", v |-> << >>]

More == [t |-> "more", v |-> << >>]

\* an internal link, `[..](./<identity>)`
Link(identity) == [t |-> "link", v |-> identity]

\* a heading line, `# ..`
Heading == [t |-> "heading", v |-> << >>]

Bodies ==
  { << >>, << Text >>, << Text, More >>, << Text, More, Text >>,
    << More, Text >>, << Text, Link(StrStart) >>,
    << Text, More, Link(StrIntro) >>, << Heading, More, Link(StrStart) >> }

MetaOf(slug, path) == [slug |-> slug, path |-> path]

\* front matters: every slug alone, and every path beside a few slugs
Metas ==
  { MetaOf(s, None) :
      s \in { None, Some(StrHelloWorld) } \cup { Some(x) : x \in Strings } }
  \cup { MetaOf(s, Some(p)) :
           s \in { None, Some(<< "a" >>), Some(<< "B", "/" >>) }, p \in Strings }

SmallMetas ==
  { MetaOf(None, None), MetaOf(Some(<< "a" >>), None),
    MetaOf(None, Some(<< "/", "a" >>)) }

FrontMatterLines(meta) ==
  (IF meta.slug.some THEN << SlugLine(meta.slug.v) >> ELSE << >>)
  \o (IF meta.path.some THEN << PathLine(meta.path.v) >> ELSE << >>)

WellFormed(meta, body) ==
  << Delim >> \o FrontMatterLines(meta) \o << Delim >> \o body

Contents ==
  { WellFormed(m, << Text >>) : m \in Metas }
  \cup { WellFormed(m, b) : m \in SmallMetas, b \in Bodies }
  \cup { << Blank >> \o WellFormed(m, << Text >>) : m \in SmallMetas }
  \* no opening delimiter
  \cup { FrontMatterLines(m) \o << Delim >> \o b :
           m \in SmallMetas, b \in { << >>, << Text >>, << Text, More >> } }
  \* no closing delimiter, and a body line inside the front matter
  \cup { << Delim >> \o FrontMatterLines(m) \o << Text >> : m \in SmallMetas }
  \cup { << Delim, Text, Delim, Text >> }

\* the index of the first line at or after i that satisfies the test, or 0
RECURSIVE FirstNonBlank(_, _)
FirstNonBlank(content, i) ==
  IF i > Len(content) THEN 0
  ELSE IF content[i].t # "blank" THEN i
  ELSE FirstNonBlank(content, i + 1)

RECURSIVE FirstDelim(_, _)
FirstDelim(content, i) ==
  IF i > Len(content) THEN 0
  ELSE IF content[i].t = "+++" THEN i
  ELSE FirstDelim(content, i + 1)

\* the value of the front matter's `key` line, if there is one
FrontMatterValue(fm, key) ==
  IF \E i \in DOMAIN fm : fm[i].t = key
  THEN Some(fm[CHOOSE i \in DOMAIN fm : fm[i].t = key].v)
  ELSE None

\* front_matter::split_page_content and PageFrontMatter::parse: the text must
\* open with the delimiter (after blank space only) and hold a second one; the
\* lines between them must decode, and a slug or path that is given is not ""
split_page_content(content) ==
  LET open == FirstNonBlank(content, 1)
      close == IF open = 0 THEN 0 ELSE FirstDelim(content, open + 1)
      fm == SubSeq(content, open + 1, close - 1)
      meta == MetaOf(FrontMatterValue(fm, "slug"), FrontMatterValue(fm, "path"))
  IN  IF open = 0 \/ content[open].t # "+++" THEN [ok |-> FALSE, why |-> "no front matter"]
      ELSE IF close = 0 THEN [ok |-> FALSE, why |-> "no front matter"]
      ELSE IF \E i \in DOMAIN fm : fm[i].t \notin { "slug", "path" }
           THEN [ok |-> FALSE, why |-> "invalid front matter"]
      ELSE IF meta.slug = Some(<< >>) \/ meta.path = Some(<< >>)
           THEN [ok |-> FALSE, why |-> "empty slug or path"]
      ELSE [ok |-> TRUE, meta |-> meta,
            content |-> SubSeq(content, close + 1, Len(content))]

(***************************************************************************)
(* Page::parse.                                                            *)
(***************************************************************************)
Ok(v) == [ok |-> TRUE, v |-> v]

Panic == [ok |-> FALSE, v |-> << >>]

\* page.rs 103-117: the slug of a page; `unwrap` of a parent directory that
\* has no file name panics
ParseSlug(meta, file) ==
  IF meta.slug.some THEN Ok(Trim(meta.slug.v))
  ELSE IF file.name = StrIndex
       THEN IF PathParent(file.path).some
            THEN IF PathFileName(PathParent(file.path).v).some
                 THEN Ok(slugify(PathFileName(PathParent(file.path).v).v))
                 ELSE Panic
            ELSE Ok(slugify(file.name))
  ELSE Ok(slugify(file.name))

\* ParsePath with a '/' appended whether or not the path ends with one
ParsePathAlwaysSlash(meta, file, slug) ==
  ( IF meta.path.some THEN TrimLeftMatches(Trim(meta.path.v), "/")
    ELSE IF Len(file.components) = 0 THEN slug
    ELSE Join(file.components, << "/" >>) \o << "/" >> \o slug ) \o << "/" >>

\* ParsePath that keeps the leading '/' of the front-matter path
ParsePathKeepsLeadingSlash(meta, file, slug) ==
  LET path ==
        IF meta.path.some THEN Trim(meta.path.v)
        ELSE IF Len(file.components) = 0 THEN slug
        ELSE Join(file.components, << "/" >>) \o << "/" >> \o slug
  IN  IF ~EndsWith(path, "/") THEN path \o << "/" >> ELSE path

\* ParsePath that leaves the directory components out
ParsePathOfSlugOnly(meta, file, slug) ==
  LET path ==
        IF meta.path.some THEN TrimLeftMatches(Trim(meta.path.v), "/")
        ELSE slug
  IN  IF ~EndsWith(path, "/") THEN path \o << "/" >> ELSE path

\* page.rs 119-130: the URL path of a page
ParsePath(meta, file, slug) ==
  LET path ==
        IF meta.path.some THEN TrimLeftMatches(Trim(meta.path.v), "/")
        ELSE IF Len(file.components) = 0 THEN slug
        ELSE Join(file.components, << "/" >>) \o << "/" >> \o slug
  IN  IF ~EndsWith(path, "/") THEN path \o << "/" >> ELSE path

\* PathComponents that keeps the empty segments
PathComponentsUnfiltered(path) == Split(path, "/")

\* page.rs 132-135: the components of the path
PathComponents(path) == FilterNonEmpty(Split(path, "/"))

\* Page::new filled by Page::parse (page.rs 98-138), once the text is split
PageOfSplit(file_path, split, config) ==
  LET file == FileInfo_new_page(file_path)
      slug == ParseSlug(split.meta, file)
      path == ParsePath(split.meta, file, slug.v)
  IN  IF ~slug.ok THEN [kind |-> "panic", page |-> None]
      ELSE [ kind |-> "ok",
             page |-> Some([ file |-> file,
                             meta |-> split.meta,
                             raw_content |-> split.content,
                             assets |-> << >>,
                             content |-> << >>,
                             slug |-> slug.v,
                             path |-> path,
                             components |-> PathComponents(path),
                             permalink |-> make_permalink(config.base_url, path),
                             summary |-> None,
                             toc |-> << >> ]) ]

\* Page::parse that makes a page without front matter of a text it cannot split
Page_parse_lenient(file_path, content, config) ==
  LET split == split_page_content(content)
  IN  IF ~split.ok
      THEN PageOfSplit(file_path,
                       [ok |-> TRUE, meta |-> MetaOf(None, None), content |-> content],
                       config)
      ELSE PageOfSplit(file_path, split, config)

\* Page::parse: `split_page_content(..)?` returns the error of the split
Page_parse(file_path, content, config) ==
  LET split == split_page_content(content)
  IN  IF ~split.ok THEN [kind |-> "err", page |-> None]
      ELSE PageOfSplit(file_path, split, config)

(***************************************************************************)
(* Page::from_file: the assets of an index page.                           *)
(***************************************************************************)
StrExample == << "e", "x", "a", "m", "p", "l", "e" >>

StrGraph == << "g", "r", "a", "p", "h" >>

StrFail == << "f", "a", "i", "l" >>

StrNotes == << "n", "o", "t", "e", "s" >>

StrSub == << "s", "u", "b" >>

StrJs == << "j", "s" >>

StrJpg == << "j", "p", "g" >>

StrPng == << "p", "n", "g" >>

\* an entry of a directory, as read_dir yields it
Entry(name, ext, is_file) == [name |-> name, ext |-> ext, is_file |-> is_file]

\* what the directory of the content file may hold beside it, in the order
\* read_dir yields it: files, another content file and a subdirectory
DirEntries ==
  << Entry(StrExample, StrJs, TRUE), Entry(StrGraph, StrJpg, TRUE),
     Entry(StrFail, StrPng, TRUE), Entry(StrNotes, StrMd, TRUE),
     Entry(StrSub, << >>, FALSE) >>

RECURSIVE SelectEntries(_, _)
SelectEntries(keep, i) ==
  IF i > Len(DirEntries) THEN << >>
  ELSE (IF i \in keep THEN << DirEntries[i] >> ELSE << >>)
       \o SelectEntries(keep, i + 1)

Listings == { SelectEntries(keep, 1) : keep \in SUBSET DOMAIN DirEntries }

\* a glob: `*.{exts}`, or `*<dir>/*.{exts}` when dir is given
Glob(dir, exts) == [dir |-> dir, exts |-> exts]

GlobSets ==
  { None,
    Some({ Glob(<< >>, { StrJs, StrPng }) }),
    Some({ Glob(StrWithAssets, { StrJpg }) }),
    Some({ Glob(<< >>, { StrJpg }), Glob(StrPosts, { StrJs }) }) }

\* GlobSet::is_match on a path
is_match(globset, path) ==
  \E g \in globset :
    /\ Len(path) > 0
    /\ path[Len(path)].ext \in g.exts
    /\ \/ g.dir = << >>
       \/ \E i \in 1..(Len(path) - 1) : ComponentStr(path[i]) = g.dir

\* utils::fs::find_related_assets: the files of the directory itself that
\* are not content files; it panics on a directory that cannot be read
RECURSIVE RelatedAssetsFrom(_, _, _)
RelatedAssetsFrom(dir, listing, i) ==
  IF i > Len(listing) THEN << >>
  ELSE (IF listing[i].is_file /\ listing[i].ext # StrMd /\ Len(listing[i].ext) > 0
        THEN << Append(dir, Normal(listing[i].name, listing[i].ext)) >>
        ELSE << >>)
       \o RelatedAssetsFrom(dir, listing, i + 1)

find_related_assets(dir, listing) ==
  IF Len(dir) = 0 THEN Panic ELSE Ok(RelatedAssetsFrom(dir, listing, 1))

\* Iterator::filter over the assets (page.rs 159-165): an asset is kept when
\* it has no file name or its file name does not match the globset
RECURSIVE FilterAssets(_, _)
FilterAssets(assets, globset) ==
  IF Len(assets) = 0 THEN << >>
  ELSE (IF ~PathFileName(assets[1]).some
           \/ ~is_match(globset, << assets[1][Len(assets[1])] >>)
        THEN << assets[1] >> ELSE << >>)
       \o FilterAssets(Tail(assets), globset)

\* the filter with the globset matched against the whole path of an asset
RECURSIVE FilterAssetsByPath(_, _)
FilterAssetsByPath(assets, globset) ==
  IF Len(assets) = 0 THEN << >>
  ELSE (IF ~is_match(globset, assets[1]) THEN << assets[1] >> ELSE << >>)
       \o FilterAssetsByPath(Tail(assets), globset)

FromFileAssetsByPath(name, parent_dir, listing, globset) ==
  IF name = StrIndex
  THEN LET assets == find_related_assets(parent_dir, listing)
       IN  IF ~assets.ok THEN Panic
           ELSE IF globset.some THEN Ok(FilterAssetsByPath(assets.v, globset.v))
           ELSE Ok(assets.v)
  ELSE Ok(<< >>)

\* page.rs 147-171: the assets Page::from_file gives a parsed page
FromFileAssets(name, parent_dir, listing, globset) ==
  IF name = StrIndex
  THEN LET assets == find_related_assets(parent_dir, listing)
       IN  IF ~assets.ok THEN Panic
           ELSE IF globset.some THEN Ok(FilterAssets(assets.v, globset.v))
           ELSE Ok(assets.v)
  ELSE Ok(<< >>)

\* Page::from_file; `file` is the text of the file, None when it cannot be read
Page_from_file(path, file, listing, config) ==
  LET parsed == Page_parse(path, file.v, config)
      assets == FromFileAssets(parsed.page.v.file.name, PathParent(path).v,
                               listing, config.ignored_content_globset)
  IN  IF ~file.some THEN [kind |-> "err", page |-> None]
      ELSE IF parsed.kind # "ok" THEN parsed
      ELSE IF ~assets.ok THEN [kind |-> "panic", page |-> None]
      ELSE [kind |-> "ok",
            page |-> Some([parsed.page.v EXCEPT !.assets = assets.v])]

(***************************************************************************)
(* Page::render_markdown.                                                  *)
(***************************************************************************)
\* the permalink tables of the site: the identities an internal link resolves
PermalinkTables == { { }, { StrStart }, { StrStart, StrIntro } }

HtmlP == [t |-> "<p>", v |-> << >>]

HtmlContinueReading == [t |-> "<a name=continue-reading>", v |-> << >>]

HtmlLink(identity) == [t |-> "<a href>", v |-> identity]

HtmlH1 == [t |-> "<h1>", v |-> << >>]

\* Header{level, id, title}: the entry of the table of contents of the
\* heading at line i of the markdown
Header(i) == [level |-> 1, id |-> i]

\* the table of contents: one entry per heading, in the order of the lines
RECURSIVE TocFrom(_, _)
TocFrom(raw_content, i) ==
  IF i > Len(raw_content) THEN << >>
  ELSE IF raw_content[i].t = "heading"
  THEN << Header(i) >> \o TocFrom(raw_content, i + 1)
  ELSE TocFrom(raw_content, i + 1)

\* the HTML of one line of markdown
RenderLine(line) ==
  IF line.t = "more" THEN HtmlContinueReading
  ELSE IF line.t = "link" THEN HtmlLink(line.v)
  ELSE IF line.t = "heading" THEN HtmlH1
  ELSE HtmlP

\* the index of the first continue-reading anchor of the HTML, or 0
RECURSIVE FindContinueReading(_, _)
FindContinueReading(html, i) ==
  IF i > Len(html) THEN 0
  ELSE IF html[i] = HtmlContinueReading THEN i
  ELSE FindContinueReading(html, i + 1)

\* an error is a chain of messages, the outermost first; a message may name
\* a file or a link
Message(msg, file, link) == [msg |-> msg, file |-> file, link |-> link]

\* the error of a link that the permalink table does not hold
BrokenLink(identity) == Message("BrokenLinkError", << >>, identity)

\* ResultExt::chain_err
chain_err(error, message) == << message >> \o error

\* the first internal link of the content that the table does not hold
FirstBrokenLink(raw_content, permalinks) ==
  LET broken == { i \in DOMAIN raw_content :
                    raw_content[i].t = "link" /\ raw_content[i].v \notin permalinks }
  IN  raw_content[CHOOSE i \in broken : \A j \in broken : i <= j].v

\* rendering::render_content: the HTML of the body, the offset of the
\* `<!-- more -->` marker in it, and the table of contents; an internal link
\* that the permalink table does not hold is an error
render_content(raw_content, permalinks) ==
  LET body == [i \in DOMAIN raw_content |-> RenderLine(raw_content[i])]
      cut == FindContinueReading(body, 1)
  IN  IF \E i \in DOMAIN raw_content :
           raw_content[i].t = "link" /\ raw_content[i].v \notin permalinks
      THEN [ok |-> FALSE, body |-> << >>, summary_len |-> None, toc |-> << >>,
            error |-> << BrokenLink(FirstBrokenLink(raw_content, permalinks)) >>]
      ELSE [ok |-> TRUE, body |-> body,
            summary_len |-> IF cut = 0 THEN None ELSE Some(cut - 1),
            toc |-> TocFrom(raw_content, 1), error |-> << >>]

\* RenderSummary cut one element late
RenderSummaryCutLate(res) ==
  IF res.summary_len.some THEN Some(SubSeq(res.body, 1, res.summary_len.v + 1))
  ELSE None

\* page.rs 200: the summary is the rendered body up to the marker's offset
RenderSummary(res) ==
  IF res.summary_len.some THEN Some(SubSeq(res.body, 1, res.summary_len.v))
  ELSE None

\* page.rs 198 and section.rs 220: the message chain_err is given
FailedToRender(path) == Message("Failed to render content of", path, << >>)

\* Page::render_markdown returning the error of render_content as it is
Page_render_markdown_unchained(self, permalinks) ==
  LET res == render_content(self.raw_content, permalinks)
  IN  IF ~res.ok
      THEN [kind |-> "err", page |-> self, res |-> res, error |-> res.error]
      ELSE [kind |-> "ok",
            page |-> [self EXCEPT !.summary = RenderSummary(res),
                                  !.content = res.body,
                                  !.toc = res.toc],
            res |-> res, error |-> << >>]

\* Page::render_markdown adding the rendered body to the content it holds
Page_render_markdown_appending(self, permalinks) ==
  LET res == render_content(self.raw_content, permalinks)
  IN  IF ~res.ok
      THEN [kind |-> "err", page |-> self, res |-> res,
            error |-> chain_err(res.error, FailedToRender(self.file.path))]
      ELSE [kind |-> "ok",
            page |-> [self EXCEPT !.summary = RenderSummary(res),
                                  !.content = self.content \o res.body,
                                  !.toc = res.toc],
            res |-> res, error |-> << >>]

\* Page::render_markdown
Page_render_markdown(self, permalinks) ==
  LET res == render_content(self.raw_content, permalinks)
  IN  IF ~res.ok
      THEN [kind |-> "err", page |-> self, res |-> res,
            error |-> chain_err(res.error, FailedToRender(self.file.path))]
      ELSE [kind |-> "ok",
            page |-> [self EXCEPT !.summary = RenderSummary(res),
                                  !.content = res.body,
                                  !.toc = res.toc],
            res |-> res, error |-> << >>]

(***************************************************************************)
(* Section::parse and Section::render_markdown.                            *)
(***************************************************************************)
StrUnderscoreIndex == << "_", "i", "n", "d", "e", "x" >>

\* the _index.md files sections are read from
SectionPaths == { Append(d, Normal(StrUnderscoreIndex, StrMd)) : d \in DirPaths }

\* the texts of the _index.md files
SectionContents ==
  { WellFormed(MetaOf(None, None), b) : b \in Bodies } \cup { << Text >> }

\* split_section_content: the front matter of a section and what follows it
split_section_content(content) ==
  LET split == split_page_content(content)
  IN  IF ~split.ok THEN [ok |-> FALSE]
      ELSE [ok |-> TRUE, meta |-> [insert_anchor_links |-> "none"],
            content |-> split.content]

\* FileInfo::new_section
FileInfo_new_section(path) ==
  [ path |-> path,
    parent |-> PathParent(path).v,
    name |-> PathFileStem(path).v,
    components |-> find_content_components(path) ]

\* Section::parse (section.rs 140-154)
Section_parse(file_path, content, config) ==
  LET split == split_section_content(content)
      file == FileInfo_new_section(file_path)
      path == Join(file.components, << "/" >>) \o << "/" >>
  IN  IF ~split.ok THEN [kind |-> "err", section |-> None]
      ELSE [ kind |-> "ok",
             section |-> Some([ file |-> file,
                                meta |-> split.meta,
                                path |-> path,
                                components |-> FilterNonEmpty(Split(path, "/")),
                                permalink |-> make_permalink(config.base_url, path),
                                raw_content |-> split.content,
                                content |-> << >>,
                                toc |-> << >> ]) ]

\* Section::render_markdown storing what render_content gave when it failed
Section_render_markdown_storing(self, permalinks) ==
  LET res == render_content(self.raw_content, permalinks)
  IN  IF ~res.ok
      THEN [kind |-> "err",
            section |-> [self EXCEPT !.content = res.body, !.toc = res.toc],
            res |-> res,
            error |-> chain_err(res.error, FailedToRender(self.file.path))]
      ELSE [kind |-> "ok",
            section |-> [self EXCEPT !.content = res.body, !.toc = res.toc],
            res |-> res, error |-> << >>]

\* Section::render_markdown (section.rs 204-224)
Section_render_markdown(self, permalinks) ==
  LET res == render_content(self.raw_content, permalinks)
  IN  IF ~res.ok
      THEN [kind |-> "err", section |-> self, res |-> res,
            error |-> chain_err(res.error, FailedToRender(self.file.path))]
      ELSE [kind |-> "ok",
            section |-> [self EXCEPT !.content = res.body, !.toc = res.toc],
            res |-> res, error |-> << >>]

(***************************************************************************)
(* utils::fs::copy_file_if_needed.  One source path and one destination    *)
(* path; a path holds nothing, a directory, or a file with its bytes and   *)
(* its modification time.  A hard link of the source is the source's file. *)
(***************************************************************************)
StrTxt == << "t", "x", "t" >>

StrPngUpper == << "P", "N", "G" >>

\* str::to_lowercase
to_lowercase(s) == [i \in DOMAIN s |-> ToLower(s[i])]

\* the bytes of a file: what they are, how many, and whether they came out of
\* the PNG optimizer
Bytes(data, len) == [data |-> data, len |-> len, optimized |-> FALSE]

NoBytes == Bytes("", 0)

\* the files of the test: "file1" and "file2" are as long as each other
FileBytes == { Bytes("file1", 5), Bytes("file2", 5), Bytes("longer file", 11) }

\* the extensions of the source path
SourceExts == { StrTxt, StrPng, StrPngUpper }

Missing == [kind |-> "missing", bytes |-> NoBytes, mtime |-> 0, link |-> FALSE]

Directory == [kind |-> "dir", bytes |-> NoBytes, mtime |-> 0, link |-> FALSE]

File(bytes, mtime) ==
  [kind |-> "file", bytes |-> bytes, mtime |-> mtime, link |-> FALSE]

\* the file a hard link of `file` is
LinkOf(file) == [file EXCEPT !.link = TRUE]

\* the time of the clock when a file is written: later than every mtime that
\* set_file_mtime is given
Now == MaxMtime + 1

Mtimes == 0..MaxMtime

\* Option<u8>: the optimization levels of the configuration
OptimizeLevels == { None, Some(2), Some(5) }

\* get_png_optimzation_options (fs.rs 81-102)
get_png_optimzation_options(configoptimize) ==
  [ preset |-> IF configoptimize.some THEN configoptimize.v ELSE 2,
    alphas |-> configoptimize.some /\ configoptimize.v > 4 ]

\* oxipng::optimize: the image, recompressed; "file1" is as small as it gets
optimize(bytes, options) ==
  [ data |-> bytes.data,
    len |-> IF bytes.data = "file1" THEN bytes.len
            ELSE IF options.alphas THEN bytes.len - 2 ELSE bytes.len - 1,
    optimized |-> TRUE ]

\* fs.rs 128 and 148: the source is a PNG to optimize
IsPngToOptimize(ext, configoptimize) ==
  configoptimize.some /\ to_lowercase(ext) = StrPng

\* the staleness test with the lengths left out
SameMetadataByMtime(src_metadata, target_metadata) ==
  src_metadata.mtime = target_metadata.mtime

\* fs.rs 126: the destination is as the source left it
SameMetadata(src_metadata, target_metadata) ==
  /\ src_metadata.mtime = target_metadata.mtime
  /\ src_metadata.bytes.len = target_metadata.bytes.len

\* the file written without set_file_mtime: its mtime is the time of the copy
WrittenFileAtNow(src, ext, configoptimize) ==
  IF IsPngToOptimize(ext, configoptimize)
  THEN File(optimize(src.bytes, get_png_optimzation_options(configoptimize)), Now)
  ELSE File(src.bytes, Now)

\* the file written with set_file_mtime after the plain copy only
WrittenFileMtimeOfCopyOnly(src, ext, configoptimize) ==
  IF IsPngToOptimize(ext, configoptimize)
  THEN File(optimize(src.bytes, get_png_optimzation_options(configoptimize)), Now)
  ELSE File(src.bytes, src.mtime)

\* fs.rs 127-143 and 147-163: optimize or copy, then set_file_mtime
WrittenFile(src, ext, configoptimize) ==
  IF IsPngToOptimize(ext, configoptimize)
  THEN File(optimize(src.bytes, get_png_optimzation_options(configoptimize)),
            src.mtime)
  ELSE File(src.bytes, src.mtime)

CopyOutcome(result, wrote, dest) == [result |-> result, wrote |-> wrote, dest |-> dest]

\* copy_file_if_needed(src, dest, hard_link, configoptimize): how the call
\* ends, whether it wrote the destination, and what the destination holds
copy_file_if_needed(src, ext, dest, hard_link, configoptimize) ==
  IF hard_link
  THEN IF src.kind # "file" \/ dest.kind # "missing"
       THEN CopyOutcome("err", FALSE, dest)
       ELSE CopyOutcome("ok", FALSE, LinkOf(src))
  ELSE IF src.kind # "file" THEN CopyOutcome("err", FALSE, dest)
  ELSE IF dest.kind = "file"
       THEN IF ~SameMetadata(src, dest)
            THEN CopyOutcome("ok", TRUE, WrittenFile(src, ext, configoptimize))
            ELSE CopyOutcome("ok", FALSE, dest)
  ELSE IF dest.kind = "dir" THEN CopyOutcome("err", FALSE, dest)
  ELSE CopyOutcome("ok", TRUE, WrittenFile(src, ext, configoptimize))

(***************************************************************************)
(* cmd::serve.  The paths of change events are strings; a path is the      *)
(* directory the site is served from, then what lies below it.             *)
(***************************************************************************)
\* the directory of the test
PwdVincent ==
  << "/", "h", "o", "m", "e", "/", "v", "i", "n", "c", "e", "n", "t", "/",
     "s", "i", "t", "e" >>

\* a site directory right below the root, with a one-letter name
PwdShort == << "/", "s" >>

\* a site directory that is itself named content
PwdNamedContent == << "/", "c", "o", "n", "t", "e", "n", "t" >>

\* a site directory on Windows
PwdWindows == << "C", ":", "\\", "s", "i", "t", "e" >>

StrSlashTemplates == << "/", "t", "e", "m", "p", "l", "a", "t", "e", "s" >>

StrSlashContent == << "/", "c", "o", "n", "t", "e", "n", "t" >>

StrSlashStatic == << "/", "s", "t", "a", "t", "i", "c" >>

StrSwp == << "s", "w", "p" >>

StrSwx == << "s", "w", "x" >>

StrTmp == << "t", "m", "p" >>

StrDotDsStore == << ".", "D", "S", "_", "S", "T", "O", "R", "E" >>

StrJbOld == << "j", "b", "_", "o", "l", "d", "_", "_", "_" >>

StrJbTmp == << "j", "b", "_", "t", "m", "p", "_", "_", "_" >>

StrJbBak == << "j", "b", "_", "b", "a", "k", "_", "_", "_" >>

StrDotDot == << ".", "." >>

\* the reload path of a content or template rebuild
StrXJs == << "/", "x", ".", "j", "s" >>

TailTemplate ==
  << "/", "t", "e", "m", "p", "l", "a", "t", "e", "s", "/", "h", "e", "l",
     "l", "o", ".", "h", "t", "m", "l" >>

TailStatic ==
  << "/", "s", "t", "a", "t", "i", "c", "/", "s", "i", "t", "e", ".", "c",
     "s", "s" >>

TailContent ==
  << "/", "c", "o", "n", "t", "e", "n", "t", "/", "p", "o", "s", "t", "s",
     "/", "h", "e", "l", "l", "o", ".", "m", "d" >>

TailSwp ==
  << "/", "c", "o", "n", "t", "e", "n", "t", "/", "h", "e", "l", "l", "o",
     ".", "s", "w", "p" >>

TailSwx ==
  << "/", "c", "o", "n", "t", "e", "n", "t", "/", "h", "e", "l", "l", "o",
     ".", "s", "w", "x" >>

TailDsStore ==
  << "/", "s", "t", "a", "t", "i", "c", "/", ".", "D", "S", "_", "S", "T",
     "O", "R", "E" >>

TailTmp ==
  << "/", "c", "o", "n", "t", "e", "n", "t", "/", "h", "e", "l", "l", "o",
     ".", "t", "m", "p" >>

TailJbOld ==
  << "/", "t", "e", "m", "p", "l", "a", "t", "e", "s", "/", "h", "e", "l",
     "l", "o", ".", "h", "t", "m", "l", ".", "_", "_", "j", "b", "_", "o",
     "l", "d", "_", "_", "_" >>

TailJbTmp ==
  << "/", "t", "e", "m", "p", "l", "a", "t", "e", "s", "/", "h", "e", "l",
     "l", "o", ".", "h", "t", "m", "l", ".", "_", "_", "j", "b", "_", "t",
     "m", "p", "_", "_", "_" >>

TailJbBak ==
  << "/", "t", "e", "m", "p", "l", "a", "t", "e", "s", "/", "h", "e", "l",
     "l", "o", ".", "h", "t", "m", "l", ".", "_", "_", "j", "b", "_", "b",
     "a", "k", "_", "_", "_" >>

TailTilde ==
  << "/", "t", "e", "m", "p", "l", "a", "t", "e", "s", "/", "h", "e", "l",
     "l", "o", ".", "h", "t", "m", "l", "~" >>

TailHash ==
  << "/", "t", "e", "m", "p", "l", "a", "t", "e", "s", "/", "#", "h", "e",
     "l", "l", "o", ".", "h", "t", "m", "l" >>

\* the backup of a file that has no extension
TailPlainTilde ==
  << "/", "s", "t", "a", "t", "i", "c", "/", "C", "N", "A", "M", "E", "~" >>

\* the auto-save of a file that has no extension
TailPlainHash ==
  << "/", "s", "t", "a", "t", "i", "c", "/", "#", "C", "N", "A", "M", "E",
     "#" >>

\* the safe-write copy of a file that has no extension
TailPlainJb ==
  << "/", "s", "t", "a", "t", "i", "c", "/", "C", "N", "A", "M", "E", "_",
     "_", "_", "j", "b", "_", "t", "m", "p", "_", "_", "_" >>

TailWindowsStatic ==
  << "\\", "s", "t", "a", "t", "i", "c", "\\", "s", "i", "t", "e", ".",
     "c", "s", "s" >>

TailWindowsContent ==
  << "\\", "c", "o", "n", "t", "e", "n", "t", "\\", "p", "o", "s", "t",
     "s", "\\", "h", "e", "l", "l", "o", ".", "m", "d" >>

\* a path under none of the three roots
TailPublic ==
  << "/", "p", "u", "b", "l", "i", "c", "/", "i", "n", "d", "e", "x", ".",
     "h", "t", "m", "l" >>

\* a path under none of the three roots
TailConfig == << "/", "c", "o", "n", "f", "i", "g", ".", "t", "o", "m", "l" >>

\* a directory beside the content root whose name starts like it
TailContentOld ==
  << "/", "c", "o", "n", "t", "e", "n", "t", "-", "o", "l", "d", "/", "h",
     "e", "l", "l", "o", ".", "m", "d" >>

\* a directory beside the static root whose name starts like it
TailStaticBackup ==
  << "/", "s", "t", "a", "t", "i", "c", ".", "b", "a", "k", "/", "s", "i",
     "t", "e", ".", "c", "s", "s" >>

\* s starts with the string p / ends with the string p
HasPrefix(s, p) == Len(s) >= Len(p) /\ SubSeq(s, 1, Len(p)) = p

HasSuffix(s, p) ==
  Len(s) >= Len(p) /\ SubSeq(s, Len(s) - Len(p) + 1, Len(s)) = p

\* str::replace: every match of `from`, left to right, none overlapping
Replace(s, from, to) ==
  LET n == Len(s)
      m == Len(from)
      R[i \in 1..(n + 1)] ==
        IF i > n THEN << >>
        ELSE IF m > 0 /\ i + m - 1 <= n /\ SubSeq(s, i, i + m - 1) = from
        THEN to \o R[i + m]
        ELSE << s[i] >> \o R[i + 1]
  IN  R[1]

\* a path with a drive letter is a path of a Windows build, where '\' also
\* separates components
HasDrive(path) == Len(path) >= 2 /\ path[2] = ":"

IsSeparator(path, c) == c = "/" \/ (HasDrive(path) /\ c = "\\")

\* the place of the last character of s that is in `chars`, or 0
LastIndexOf(s, chars) ==
  LET hits == { i \in DOMAIN s : s[i] \in chars }
  IN  IF hits = { } THEN 0 ELSE CHOOSE i \in hits : \A j \in hits : j <= i

\* where the file name of a path starts: after its last separator
FileNameStart(path) ==
  LastIndexOf(path, IF HasDrive(path) THEN { "/", "\\" } ELSE { "/" }) + 1

\* Path::file_name, of a path to a file
Path_file_name(path) == SubSeq(path, FileNameStart(path), Len(path))

\* the file name has an extension: it is not "..", and its last '.' is not
\* its first character
HasExtension(path) ==
  /\ LastIndexOf(path, { "." }) > FileNameStart(path)
  /\ Path_file_name(path) # StrDotDot

\* Path::extension: what follows the last '.' of the file name
Path_extension(path) ==
  IF HasExtension(path)
  THEN Some(SubSeq(path, LastIndexOf(path, { "." }) + 1, Len(path)))
  ELSE None

\* Path::file_stem: the file name without its extension
Path_file_stem(path) ==
  IF FileNameStart(path) > Len(path) THEN None
  ELSE IF HasExtension(path)
  THEN Some(SubSeq(path, FileNameStart(path), LastIndexOf(path, { "." }) - 1))
  ELSE Some(Path_file_name(path))

\* Path::ends_with, of one component
Path_ends_with(path, child) == Path_file_name(path) = child

\* serve.rs 154-180
is_temp_file(path) ==
  LET ext == Path_extension(path)
  IN  IF ext.some
      THEN IF ext.v \in { StrSwp, StrSwx, StrTmp, StrDotDsStore } THEN TRUE
           ELSE IF HasSuffix(ext.v, StrJbOld) THEN TRUE
           ELSE IF HasSuffix(ext.v, StrJbTmp) THEN TRUE
           ELSE IF HasSuffix(ext.v, StrJbBak) THEN TRUE
           ELSE IF EndsWith(ext.v, "~") THEN TRUE
           ELSE LET filename == Path_file_stem(path)
                IN  IF filename.some THEN StartsWith(filename.v, "#")
                    ELSE FALSE
      ELSE Path_ends_with(path, StrDotDsStore)

\* serve.rs 183-200; "unreachable" is the panic of unreachable!()
detect_change_kind(pwd, path) ==
  LET path_str == Replace(Replace(path, pwd, << >>), << "\\" >>, << "/" >>)
  IN  [ change_kind |->
          IF HasPrefix(path_str, StrSlashTemplates) THEN "Templates"
          ELSE IF HasPrefix(path_str, StrSlashContent) THEN "Content"
          ELSE IF HasPrefix(path_str, StrSlashStatic) THEN "StaticFiles"
          ELSE "unreachable",
        path_str |-> path_str ]

\* the directories a site is served from
Pwds == { PwdVincent, PwdShort, PwdNamedContent, PwdWindows }

\* notify::DebouncedEvent: the kinds the loop handles, and one it ignores
ChangeEvents == { "Create", "Write", "Remove", "Rename" }

Event(kind, path) == [kind |-> kind, path |-> path]

NoEvent == [seq |-> 0, kind |-> "none", path |-> << >>]

\* what the watcher sees below content/, static/ and templates/
WatchedEvents(dir) ==
  IF HasDrive(dir)
  THEN { Event("Write", dir \o TailWindowsStatic),
         Event("Create", dir \o TailWindowsContent) }
  ELSE { Event("Write", dir \o TailTemplate),
         Event("Write", dir \o TailStatic),
         Event("Remove", dir \o TailStatic),
         Event("Create", dir \o TailContent),
         Event("Rename", dir \o TailSwp),
         Event("Write", dir \o TailPlainTilde),
         Event("Chmod", dir \o TailContent) }

\* the paths a change event can name, watched or not
AnyTails ==
  { TailTemplate, TailStatic, TailContent, TailSwp, TailSwx, TailDsStore,
    TailTmp, TailJbOld, TailJbTmp, TailJbBak, TailTilde, TailHash,
    TailPlainTilde, TailPlainHash, TailPlainJb, TailPublic, TailConfig,
    TailContentOld, TailStaticBackup }

AnyEvents(dir) ==
  IF HasDrive(dir) THEN WatchedEvents(dir)
  ELSE { Event(kind, dir \o tail) : kind \in { "Write", "Rename" },
                                    tail \in AnyTails }

\* what a rebuild does to the site: the files reparsed and relinked, how
\* much is rendered again, the files copied
Work(reparsed, rendered, copied) ==
  [reparsed |-> reparsed, relinked |-> reparsed, rendered |-> rendered,
   copied |-> copied]

NoWork == Work(<< >>, << >>, << >>)

\* Site::rebuild_after_content_change(path)
Site_rebuild_after_content_change(path) == Work(<< path >>, << "one" >>, << >>)

\* Site::rebuild_after_template_change()
Site_rebuild_after_template_change == Work(<< >>, << "all" >>, << >>)

\* Site::copy_static_file(path)
Site_copy_static_file(path) == Work(<< >>, << >>, << path >>)

Call(method, reload_path) == [method |-> method, reload_path |-> reload_path]

\* the dispatch with a reparse on a template change as well
RebuildCallsReparsing(change_kind, p, is_file) ==
  IF change_kind = "Content"
  THEN << Call("rebuild_after_content_change", StrXJs) >>
  ELSE IF change_kind = "Templates"
  THEN << Call("rebuild_after_content_change", StrXJs),
          Call("rebuild_after_template_change", StrXJs) >>
  ELSE IF is_file THEN << Call("copy_static_file", p) >>
  ELSE << >>


\* serve.rs 125-142: the methods of Site an event of a kind makes the loop
\* call, each with the reload path rebuild_done_handling is given
RebuildCalls(change_kind, p, is_file) ==
  IF change_kind = "Content"
  THEN << Call("rebuild_after_content_change", StrXJs) >>
  ELSE IF change_kind = "Templates"
  THEN << Call("rebuild_after_template_change", StrXJs) >>
  ELSE IF is_file THEN << Call("copy_static_file", p) >>
  ELSE << >>

\* what a call of a method of Site does
WorkOfCall(call_, path) ==
  IF call_.method = "rebuild_after_content_change"
  THEN Site_rebuild_after_content_change(path)
  ELSE IF call_.method = "rebuild_after_template_change"
  THEN Site_rebuild_after_template_change
  ELSE Site_copy_static_file(path)

RECURSIVE WorkOfCalls(_, _)
WorkOfCalls(calls, path) ==
  IF Len(calls) = 0 THEN NoWork
  ELSE LET w == WorkOfCall(Head(calls), path)
           rest == WorkOfCalls(Tail(calls), path)
       IN  [reparsed |-> w.reparsed \o rest.reparsed,
            relinked |-> w.relinked \o rest.relinked,
            rendered |-> w.rendered \o rest.rendered,
            copied |-> w.copied \o rest.copied]

\* the messages of the live-reload channel
Reload(reload_path) == [command |-> "reload", path |-> reload_path]

StrFailedToBuild == "Failed to build the site"

\* unravel_errors(message, error, exit): prints the message and the chain of
\* errors, and exits the process when `exit` is set
unravel_errors(message, exit) == [console |-> << message >>, exits |-> exit]

Handled(sent, console, exits) ==
  [sent |-> sent, console |-> console, exits |-> exits]

\* rebuild_done_handling with an unravel_errors that exits
rebuild_done_handling_exiting(how, reload_path) ==
  IF how = "ok" THEN Handled(<< Reload(reload_path) >>, << >>, FALSE)
  ELSE LET u == unravel_errors(StrFailedToBuild, TRUE)
       IN  Handled(<< >>, u.console, u.exits)

\* serve.rs 36-52: what is sent to the browsers, what is printed, and
\* whether the process exits
rebuild_done_handling(how, reload_path) ==
  IF how = "ok" THEN Handled(<< Reload(reload_path) >>, << >>, FALSE)
  ELSE LET u == unravel_errors(StrFailedToBuild, FALSE)
       IN  Handled(<< >>, u.console, u.exits)

\* the loop taking an event while one is being handled
CanReceiveAnytime(pc) == pc \notin { "idle", "panicked", "exited" }

\* serve.rs 109-111: the loop takes an event at its top only
CanReceive(pc) == pc = "recv"

(***************************************************************************)
(* The state.  Of the page pipeline: the last call, its arguments and what *)
(* it returned.  Of the asset copy: the two paths and the last two calls.  *)
(***************************************************************************)
VARIABLES
  op,        \* the last operation called: "none", "parse", "from_file", ...
  args,      \* the arguments of the call that made the page
  result,    \* how the last call ended: "none", "ok", "err" or "panic"
  page,      \* Option<Page>: the page the program holds
  res,       \* what render_content returned to the last render_markdown
  section,   \* Option<Section>: the section the program holds
  rendered,  \* the last render_markdown: its permalink table, its error,
             \* and what the entity held rendered before the call
  src,       \* what the source path holds
  src_ext,   \* the extension of the source path
  dest,      \* what the destination path holds
  dest_dir,  \* the directory of the destination path exists
  call,      \* the last call of copy_file_if_needed, if nothing changed since
  prev,      \* the call before it, if nothing changed in between
  step,      \* the call of copy_file_if_needed in progress, statement by statement
  pwd,       \* the directory the site is served from
  rx,        \* the events the watcher has sent and the loop has not taken
  watched,   \* how many events the watcher has sent
  serve,     \* the serve loop: where it is, and the event it took last
  building,  \* how many rebuilds are in progress
  pages,     \* the pages of the site, with their earlier and later links
  library,   \* the Library: its sections and pages by key
  view,      \* the serialized view of a section made last, and what for
  src_tree,  \* what each path of the source directory holds
  dest_tree, \* what each path of the destination directory holds
  dir_call,  \* the last call of copy_directory, if nothing changed since
  eval       \* the function applied last, what it was given and returned

pageVars == << op, args, result, page, res, section, rendered >>

fsVars == << src, src_ext, dest, dest_dir, call, prev >>

stepVars == << step >>

\* the state the page pipeline and the one-step asset copy leave alone
serveVars == << pwd, rx, watched, serve, building >>

libVars == << pages, library, view >>

treeVars == << src_tree, dest_tree, dir_call >>

evalVars == << eval >>

extVars == << stepVars, serveVars, libVars, treeVars, evalVars >>

coreVars == << pageVars, fsVars, stepVars, serveVars >>

vars == << pageVars, fsVars, extVars >>

NoArgs ==
  [file_path |-> << >>, content |-> None, base_url |-> << >>,
   listing |-> << >>, globset |-> None]

NoRes ==
  [ok |-> FALSE, body |-> << >>, summary_len |-> None, toc |-> << >>,
   error |-> << >>]

\* what render_markdown assigns: the rendered content, summary and toc
Rendered(content, summary, toc) ==
  [content |-> content, summary |-> summary, toc |-> toc]

NoRender ==
  [permalinks |-> { }, error |-> << >>, before |-> Rendered(<< >>, None, << >>)]

NoCall ==
  [called |-> FALSE, hard_link |-> FALSE, configoptimize |-> None,
   result |-> "none", wrote |-> FALSE, src |-> Missing, dest_before |-> Missing]

\* no function was applied yet
NoEval == [fn |-> "none", args |-> << >>, out |-> << >>]

\* the paths of a directory tree, in the order WalkDir yields them: the
\* directory itself, a file in it, a directory in it and a PNG in that
TreePaths == << ".", "a.txt", "d", "d/b.png" >>

\* Path::parent
TreeParent(path) ==
  CASE path = "d/b.png" -> "d" [] OTHER -> "."

\* Path::extension
TreeExt(path) ==
  CASE path = "d/b.png" -> StrPng [] path = "a.txt" -> StrTxt [] OTHER -> << >>

\* a tree with nothing at any path
EmptyTree == [p \in Range(TreePaths) |-> Missing]

\* copy_directory was not called since a tree changed last
NoDirCall ==
  [called |-> FALSE, hard_link |-> FALSE, configoptimize |-> None,
   result |-> "none", wrote |-> { }, dest_before |-> EmptyTree,
   second |-> FALSE]

\* no section was serialized since the library changed last
NoView == [how |-> "none", key |-> 0, value |-> << >>]

\* the serve loop before serve() is called; then, of the event taken last:
\* the event, whether it was classified, the calls of Site it led to, what
\* they did and how they ended, and what was sent and printed for it
NoServe ==
  [pc |-> "idle", id |-> 0, failures |-> 0, event |-> NoEvent,
   filtered |-> FALSE, classified |-> FALSE, change_kind |-> "none",
   path_str |-> << >>, is_file |-> FALSE, calls |-> << >>, work |-> NoWork,
   res |-> "none", sent |-> << >>, console |-> << >>]

\* no call of copy_file_if_needed is in progress
NoStep ==
  [pc |-> "idle", configoptimize |-> None, src_metadata |-> Missing,
   dest_read_failed |-> "none", result |-> "none", error_at |-> "none",
   copied |-> FALSE]

\* the files Page::from_file is called on
FileContents ==
  { None }
  \cup { Some(WellFormed(m, << Text >>)) : m \in SmallMetas }
  \cup { Some(<< Text >>) }

Init ==
  /\ op = "none"
  /\ args = NoArgs
  /\ result = "none"
  /\ page = None
  /\ res = NoRes
  /\ section = None
  /\ rendered = NoRender
  /\ src = Missing
  /\ src_ext = StrTxt
  /\ dest = Missing
  /\ dest_dir = FALSE
  /\ call = NoCall
  /\ prev = NoCall
  /\ step = NoStep
  /\ pwd = << >>
  /\ rx = << >>
  /\ watched = 0
  /\ serve = NoServe
  /\ building = 0
  /\ pages = { }
  /\ library = [sections |-> << >>, pages |-> << >>]
  /\ view = NoView
  /\ src_tree = [EmptyTree EXCEPT !["."] = Directory]
  /\ dest_tree = EmptyTree
  /\ dir_call = NoDirCall
  /\ eval = NoEval

\* Page::parse(file_path, content, config)
Parse ==
  /\ op = "none"
  /\ \E file_path \in FilePaths, content \in Contents, base_url \in BaseUrls :
       LET r == Page_parse(file_path, content, [base_url |-> base_url])
       IN  /\ op' = "parse"
           /\ args' = [NoArgs EXCEPT !.file_path = file_path,
                                     !.content = Some(content),
                                     !.base_url = base_url]
           /\ result' = r.kind
           /\ page' = r.page
           /\ res' = NoRes
           /\ UNCHANGED << section, rendered >>
  /\ UNCHANGED << fsVars, extVars >>

\* Page::from_file(path, config), on a directory that holds `listing`
FromFile ==
  /\ op = "none"
  /\ \E path \in FilePaths, file \in FileContents, listing \in Listings,
        globset \in GlobSets :
       LET r == Page_from_file(path, file, listing,
                               [base_url |-> UrlWebsite,
                                ignored_content_globset |-> globset])
       IN  /\ op' = "from_file"
           /\ args' = [file_path |-> path, content |-> file,
                       base_url |-> UrlWebsite, listing |-> listing,
                       globset |-> globset]
           /\ result' = r.kind
           /\ page' = r.page
           /\ res' = NoRes
           /\ UNCHANGED << section, rendered >>
  /\ UNCHANGED << fsVars, extVars >>

\* page.render_markdown(permalinks, ..)
RenderMarkdown ==
  /\ page.some
  /\ \E permalinks \in PermalinkTables :
       LET r == Page_render_markdown(page.v, permalinks)
       IN  /\ op' = "render_markdown"
           /\ result' = r.kind
           /\ page' = Some(r.page)
           /\ res' = r.res
           /\ rendered' = [permalinks |-> permalinks, error |-> r.error,
                            before |-> Rendered(page.v.content, page.v.summary,
                                                page.v.toc)]
           /\ UNCHANGED << args, section >>
  /\ UNCHANGED << fsVars, extVars >>

\* Section::parse(file_path, content, config)
SectionParse ==
  /\ op = "none"
  /\ \E file_path \in SectionPaths, content \in SectionContents :
       LET r == Section_parse(file_path, content, [base_url |-> UrlHello])
       IN  /\ op' = "section_parse"
           /\ args' = [NoArgs EXCEPT !.file_path = file_path,
                                     !.content = Some(content),
                                     !.base_url = UrlHello]
           /\ result' = r.kind
           /\ section' = r.section
  /\ UNCHANGED << page, res, rendered, fsVars, extVars >>

\* section.render_markdown(permalinks, ..)
SectionRenderMarkdown ==
  /\ section.some
  /\ \E permalinks \in PermalinkTables :
       LET r == Section_render_markdown(section.v, permalinks)
       IN  /\ op' = "section_render_markdown"
           /\ result' = r.kind
           /\ section' = Some(r.section)
           /\ res' = r.res
           /\ rendered' = [permalinks |-> permalinks, error |-> r.error,
                            before |-> Rendered(section.v.content, None,
                                                section.v.toc)]
  /\ UNCHANGED << args, page, fsVars, extVars >>

Next ==
  \/ Parse \/ FromFile \/ RenderMarkdown
  \/ SectionParse \/ SectionRenderMarkdown

Spec == Init /\ [][Next]_vars

(***************************************************************************)
(* The asset copy and the world around it.                                 *)
(***************************************************************************)
\* the source file is written: created, or changed in place; a hard link of
\* it at the destination path is the same file
WriteSource ==
  \E bytes \in FileBytes, mtime \in Mtimes, ext \in SourceExts :
    /\ src.kind = "file" => ext = src_ext
    /\ src' = File(bytes, mtime)
    /\ src_ext' = ext
    /\ dest' = IF dest.link THEN LinkOf(File(bytes, mtime)) ELSE dest
    /\ call' = NoCall
    /\ prev' = NoCall
    /\ UNCHANGED << dest_dir, pageVars, extVars >>

\* the destination path is given a file of its own, or a directory
ReplaceDest ==
  \E d \in { File(bytes, mtime) : bytes \in FileBytes, mtime \in Mtimes }
             \cup { Directory } :
    /\ d # dest
    /\ dest' = d
    /\ dest_dir' = TRUE
    /\ call' = NoCall
    /\ prev' = NoCall
    /\ UNCHANGED << src, src_ext, pageVars, extVars >>

\* the destination path is removed
RemoveDest ==
  /\ dest.kind # "missing"
  /\ dest' = Missing
  /\ call' = NoCall
  /\ prev' = NoCall
  /\ UNCHANGED << src, src_ext, dest_dir, pageVars, extVars >>

\* copy_file_if_needed(src, dest, hard_link, configoptimize); create_dir_all
\* makes the directory of the destination first
CopyFileIfNeeded ==
  /\ \E hard_link \in BOOLEAN, configoptimize \in OptimizeLevels :
       LET r == copy_file_if_needed(src, src_ext, dest, hard_link, configoptimize)
       IN  /\ dest' = r.dest
           /\ dest_dir' = TRUE
           /\ call' = [called |-> TRUE, hard_link |-> hard_link,
                       configoptimize |-> configoptimize, result |-> r.result,
                       wrote |-> r.wrote, src |-> src, dest_before |-> dest]
           /\ prev' = call
           /\ UNCHANGED << src, src_ext, pageVars, extVars >>

CopyNext == WriteSource \/ ReplaceDest \/ RemoveDest \/ CopyFileIfNeeded

CopySpec == Init /\ [][CopyNext]_vars

(***************************************************************************)
(* copy_file_if_needed statement by statement, the destination and the     *)
(* source being paths that other programs write between two statements.    *)
(***************************************************************************)
\* how a call in progress ends
StepDone(how, error_at, copied) ==
  [step EXCEPT !.pc = "done", !.result = how, !.error_at = error_at,
               !.copied = copied]

\* fs.rs 109-122: the options, create_dir_all, then hard_link, or
\* metadata(src)? and its modification time
CopyBegin ==
  /\ step.pc \in { "idle", "done" }
  /\ \E hard_link \in BOOLEAN, configoptimize \in OptimizeLevels :
       LET begun == [NoStep EXCEPT !.configoptimize = configoptimize]
       IN  IF hard_link
           THEN IF src.kind # "file" \/ dest.kind # "missing"
                THEN /\ step' = [begun EXCEPT !.pc = "done", !.result = "err",
                                               !.error_at = "hard_link"]
                     /\ dest' = dest
                ELSE /\ step' = [begun EXCEPT !.pc = "done", !.result = "ok"]
                     /\ dest' = LinkOf(src)
           ELSE /\ dest' = dest
                /\ step' = IF src.kind # "file"
                           THEN [begun EXCEPT !.pc = "done", !.result = "err",
                                              !.error_at = "metadata(src)"]
                           ELSE [begun EXCEPT !.pc = "is_file",
                                              !.src_metadata = src]
  /\ dest_dir' = TRUE
  /\ call' = NoCall
  /\ prev' = NoCall
  /\ UNCHANGED << src, src_ext, pageVars, serveVars, libVars, treeVars, evalVars >>

\* fs.rs 123: Path::new(&dest).is_file(), false when the metadata of the
\* destination cannot be read
CopyIsFile ==
  /\ step.pc = "is_file"
  /\ step' = IF dest.kind = "file" THEN [step EXCEPT !.pc = "metadata"]
             ELSE [step EXCEPT !.pc = "write",
                               !.dest_read_failed =
                                 IF dest.kind = "missing" THEN "is_file"
                                 ELSE "none"]
  /\ UNCHANGED << fsVars, pageVars, serveVars, libVars, treeVars, evalVars >>

\* fs.rs 124-126: metadata(&dest)?, then the staleness test
CopyMetadata ==
  /\ step.pc = "metadata"
  /\ step' = IF dest.kind = "missing"
             THEN [StepDone("err", "metadata(dest)", FALSE)
                     EXCEPT !.dest_read_failed = "metadata"]
             ELSE IF SameMetadata(step.src_metadata, dest)
             THEN StepDone("ok", "none", FALSE)
             ELSE [step EXCEPT !.pc = "write"]
  /\ UNCHANGED << fsVars, pageVars, serveVars, libVars, treeVars, evalVars >>

\* fs.rs 127-143 and 147-163: optimize or copy the source as it is now, then
\* set_file_mtime to the modification time read at fs.rs 122
CopyWrite ==
  /\ step.pc = "write"
  /\ IF src.kind # "file" \/ dest.kind = "dir"
     THEN /\ step' = StepDone("err", "copy", TRUE)
          /\ dest' = dest
     ELSE /\ step' = StepDone("ok", "none", TRUE)
          /\ dest' = WrittenFile(File(src.bytes, step.src_metadata.mtime),
                                 src_ext, step.configoptimize)
  /\ UNCHANGED << src, src_ext, dest_dir, call, prev, pageVars, serveVars, libVars,
               treeVars, evalVars >>

CopyStepNext ==
  \/ WriteSource \/ ReplaceDest \/ RemoveDest
  \/ CopyBegin \/ CopyIsFile \/ CopyMetadata \/ CopyWrite

CopyStepSpec == Init /\ [][CopyStepNext]_vars

(***************************************************************************)
(* cmd::serve: the watcher's thread sends events, the loop of serve()      *)
(* takes them one at a time.                                               *)
(***************************************************************************)
otherVars == << pageVars, fsVars, stepVars, libVars, treeVars, evalVars >>

\* serve.rs 55-104: the site is built, the watcher started, pwd read
ServeStart ==
  /\ serve.pc = "idle"
  /\ \E dir \in Pwds : pwd' = dir
  /\ serve' = [serve EXCEPT !.pc = "recv"]
  /\ UNCHANGED << rx, watched, building, otherVars >>

Send(event) ==
  /\ serve.pc # "idle"
  /\ watched < MaxEvents
  /\ Len(rx) < MaxQueue
  /\ watched' = watched + 1
  /\ rx' = Append(rx, [seq |-> watched + 1, kind |-> event.kind,
                       path |-> event.path])
  /\ UNCHANGED << pwd, serve, building, otherVars >>

\* the watcher sends an event of a watched directory (serve.rs 96-100)
Watch == \E event \in WatchedEvents(pwd) : Send(event)

\* the loop is handed one event, of any path, when it waits for one
Deliver ==
  /\ CanReceive(serve.pc)
  /\ rx = << >>
  /\ \E event \in AnyEvents(pwd) : Send(event)

\* serve.rs 111-118: rx.recv() and the match on the kind of the event
Recv ==
  /\ CanReceive(serve.pc)
  /\ rx # << >>
  /\ rx' = Tail(rx)
  /\ serve' = [NoServe EXCEPT
                 !.pc = IF Head(rx).kind \in ChangeEvents THEN "filter"
                        ELSE "recv",
                 !.id = serve.id + 1,
                 !.failures = serve.failures,
                 !.event = Head(rx)]
  /\ UNCHANGED << pwd, watched, building, otherVars >>

\* serve.rs 119-121: a temp file is skipped
Filter ==
  /\ serve.pc = "filter"
  /\ \E temp \in { is_temp_file(serve.event.path) } :
       serve' = IF temp THEN [serve EXCEPT !.pc = "recv", !.filtered = TRUE]
                ELSE [serve EXCEPT !.pc = "classify"]
  /\ UNCHANGED << pwd, rx, watched, building, otherVars >>

\* serve.rs 125: detect_change_kind; unreachable!() ends the loop
Classify ==
  /\ serve.pc = "classify"
  /\ \E d \in { detect_change_kind(pwd, serve.event.path) } :
         serve' = [serve EXCEPT
                     !.pc = IF d.change_kind = "unreachable" THEN "panicked"
                            ELSE "rebuild",
                     !.classified = TRUE,
                     !.change_kind = d.change_kind,
                     !.path_str = d.path_str]
  /\ UNCHANGED << pwd, rx, watched, building, otherVars >>

\* serve.rs 126-141: the arm of the kind; path.is_file() is what the disk
\* says when the arm of static files runs
RebuildStart ==
  /\ serve.pc = "rebuild"
  /\ \E is_file \in BOOLEAN :
       LET calls == RebuildCalls(serve.change_kind, serve.path_str, is_file)
       IN  /\ serve' = [serve EXCEPT !.pc = IF Len(calls) = 0 THEN "recv"
                                            ELSE "rebuilding",
                                     !.is_file = /\ is_file
                                                 /\ serve.change_kind = "StaticFiles",
                                     !.calls = calls]
           /\ building' = IF Len(calls) = 0 THEN building ELSE building + 1
  /\ UNCHANGED << pwd, rx, watched, otherVars >>

\* the method of Site returns, Ok or Err
RebuildEnd ==
  /\ serve.pc = "rebuilding"
  /\ \E how \in { "ok", "err" } :
       serve' = [serve EXCEPT
                   !.pc = "report",
                   !.work = WorkOfCalls(serve.calls, serve.event.path),
                   !.res = how,
                   !.failures = IF how = "err" THEN 1 ELSE serve.failures]
  /\ building' = building - 1
  /\ UNCHANGED << pwd, rx, watched, otherVars >>

\* rebuild_done_handling(&broadcaster, res, reload_path), then
\* report_elapsed_time and the top of the loop
Report ==
  /\ serve.pc = "report"
  /\ LET h == rebuild_done_handling(serve.res, Head(serve.calls).reload_path)
     IN  serve' = [serve EXCEPT !.pc = IF h.exits THEN "exited" ELSE "recv",
                                !.sent = h.sent,
                                !.console = h.console]
  /\ UNCHANGED << pwd, rx, watched, building, otherVars >>

Loop == Recv \/ Filter \/ Classify \/ RebuildStart \/ RebuildEnd \/ Report

ServeNext == ServeStart \/ Watch \/ Loop

ServeSpec == Init /\ [][ServeNext]_vars

\* the loop runs whenever it can: its thread is never starved, and a
\* method of Site returns
ServeFairSpec == ServeSpec /\ WF_vars(Loop)

HandlerNext == ServeStart \/ Deliver \/ Loop

\* the loop given one event at a time, of a watched path or not
HandlerSpec == Init /\ [][HandlerNext]_vars

(***************************************************************************)
(* What the claims speak of.                                               *)
(***************************************************************************)
\* the last call was Page::parse or Page::from_file
Parsed == op \in { "parse", "from_file" }

\* the front matter of the text the page was parsed from
GivenSplit == split_page_content(args.content.v)

\* t is s without its leading and trailing whitespace
IsTrimOf(t, s) ==
  \E i \in 1..(Len(s) + 1), j \in 0..Len(s) :
    /\ t = SubSeq(s, i, j)
    /\ \A k \in 1..(i - 1) : IsWhitespace(s[k])
    /\ \A k \in (j + 1)..Len(s) : IsWhitespace(s[k])
    /\ Len(t) > 0 => ~IsWhitespace(t[1]) /\ ~IsWhitespace(t[Len(t)])

\* t is s without its leading '/'s
IsSlashStrippedOf(t, s) ==
  \E i \in 1..(Len(s) + 1) :
    /\ t = SubSeq(s, i, Len(s))
    /\ \A k \in 1..(i - 1) : s[k] = "/"
    /\ Len(t) > 0 => t[1] # "/"

\* s ends with two '/' or more
EndsWithSlashes(s) == Len(s) >= 2 /\ s[Len(s)] = "/" /\ s[Len(s) - 1] = "/"

\* the name the slug is derived from: the stem of the file, or the name of
\* its directory when the stem is "index"
DerivedName(file_path) ==
  LET n == Len(file_path)
  IN  IF file_path[n].name = StrIndex
      THEN IF n >= 2 /\ file_path[n - 1].kind = "Normal"
           THEN Some(file_path[n - 1].name)
           ELSE None
      ELSE Some(file_path[n].name)

(***************************************************************************)
(* C1.  For every content file Page::parse accepts, the slug is the        *)
(* trimmed front-matter slug when one is given, and otherwise the          *)
(* slugified name of the directory (stem "index") or of the file stem, for *)
(* every file path, an index file at the top of the path included.         *)
(* The code panics on an index file whose directory has no name.           *)
(***************************************************************************)
C1_SlugOfEveryFile ==
  (op = "parse" /\ GivenSplit.ok) =>
    /\ result = "ok"
    /\ page.some
    /\ IF GivenSplit.meta.slug.some
       THEN IsTrimOf(page.v.slug, GivenSplit.meta.slug.v)
       ELSE /\ DerivedName(args.file_path).some
            /\ page.v.slug = slugify(DerivedName(args.file_path).v)

\* what the code does ensure: the slug of every page that is returned
C1_SlugOfReturnedPage ==
  (op = "parse" /\ result = "ok") =>
    IF page.v.meta.slug.some
    THEN IsTrimOf(page.v.slug, page.v.meta.slug.v)
    ELSE /\ DerivedName(args.file_path).some
         /\ page.v.slug = slugify(DerivedName(args.file_path).v)

(***************************************************************************)
(* C2.  The path of every page Page::parse returns ends with exactly one   *)
(* '/', whatever the front-matter path or slug: the claim as it stands.    *)
(***************************************************************************)
C2_ExactlyOneTrailingSlash ==
  page.some => EndsWith(page.v.path, "/") /\ ~EndsWithSlashes(page.v.path)

\* C2, amended.  The path of every page ends with '/'; it ends with exactly
\* one '/' when the front-matter path, trimmed, does not end with "//" and,
\* where no path is given, when the slug does not end with '/'.
C2_TrailingSlash ==
  page.some =>
    /\ EndsWith(page.v.path, "/")
    /\ ( \/ page.v.meta.path.some /\ ~EndsWithSlashes(Trim(page.v.meta.path.v))
         \/ ~page.v.meta.path.some /\ ~EndsWith(page.v.slug, "/") )
       => ~EndsWithSlashes(page.v.path)

\* a front-matter path that ends with one '/' already: none is appended
C2_Witness ==
  /\ page.some
  /\ page.v.meta.path.some
  /\ EndsWith(Trim(page.v.meta.path.v), "/")
  /\ Len(page.v.path) >= 2
  /\ ~EndsWithSlashes(page.v.path)

(***************************************************************************)
(* C3.  The components of a page are the non-empty '/'-separated segments  *)
(* of its path, in order: no component is empty or holds a '/', and        *)
(* joining them with '/' gives the path without its leading, trailing and  *)
(* repeated '/'.                                                           *)
(***************************************************************************)
\* s without its '/' that lead, trail or follow another '/'
RECURSIVE SingleSlashes(_, _)
SingleSlashes(s, i) ==
  IF i > Len(s) THEN << >>
  ELSE IF s[i] = "/"
          /\ (i = 1 \/ s[i - 1] = "/" \/ \A k \in i..Len(s) : s[k] = "/")
       THEN SingleSlashes(s, i + 1)
  ELSE << s[i] >> \o SingleSlashes(s, i + 1)

C3_ComponentsAreSegments ==
  page.some =>
    /\ \A i \in DOMAIN page.v.components :
         /\ Len(page.v.components[i]) > 0
         /\ "/" \notin Range(page.v.components[i])
    /\ Join(page.v.components, << "/" >>) = SingleSlashes(page.v.path, 1)

\* a path with an empty segment inside it and two components around it
C3_Witness ==
  /\ page.some
  /\ Len(page.v.components) >= 2
  /\ \E i \in 1..(Len(page.v.path) - 2) :
       page.v.path[i] = "/" /\ page.v.path[i + 1] = "/"

(***************************************************************************)
(* C4.  With a front-matter path, the path of the page is that value       *)
(* trimmed and without its leading '/', with the trailing '/', whatever    *)
(* the directory components and the slug are; the permalink is the base    *)
(* URL joined with that path.                                              *)
(***************************************************************************)
SubStrings(s) == { SubSeq(s, i, j) : i \in 1..(Len(s) + 1), j \in 0..Len(s) }

WithTrailingSlash(s) == IF EndsWith(s, "/") THEN s ELSE s \o << "/" >>

\* the base URL and the path, joined by exactly one '/'
JoinedUrl(base_url, path) ==
  (IF EndsWith(base_url, "/") THEN SubSeq(base_url, 1, Len(base_url) - 1)
   ELSE base_url)
  \o << "/" >>
  \o (IF StartsWith(path, "/") THEN Tail(path) ELSE path)

C4_ExplicitPath ==
  (page.some /\ page.v.meta.path.some) =>
    /\ \E t \in SubStrings(page.v.meta.path.v), u \in SubStrings(page.v.meta.path.v) :
         /\ IsTrimOf(t, page.v.meta.path.v)
         /\ IsSlashStrippedOf(u, t)
         /\ page.v.path = WithTrailingSlash(u)
    /\ page.v.permalink = JoinedUrl(args.base_url, page.v.path)

\* a front-matter path with a leading '/', on a file below directories, with
\* a front-matter slug beside it
C4_Witness ==
  /\ page.some
  /\ page.v.meta.path.some /\ page.v.meta.slug.some
  /\ StartsWith(Trim(page.v.meta.path.v), "/")
  /\ Len(page.v.file.components) > 0
  /\ Len(page.v.path) > 1

(***************************************************************************)
(* C5.  With no front-matter path, the path of the page is the directory   *)
(* components joined by '/', then '/', then the slug, then a trailing '/'  *)
(* (slug and '/' when there is no component), and the permalink is the     *)
(* base URL joined with it: the claim as it stands.                        *)
(***************************************************************************)
\* every directory followed by '/'
RECURSIVE Directories(_)
Directories(components) ==
  IF Len(components) = 0 THEN << >>
  ELSE components[1] \o << "/" >> \o Directories(Tail(components))

C5_PathIsJoinedPlusSlash ==
  (page.some /\ ~page.v.meta.path.some) =>
    /\ page.v.path = Directories(page.v.file.components) \o page.v.slug \o << "/" >>
    /\ page.v.permalink = JoinedUrl(args.base_url, page.v.path)

\* C5, amended.  With no front-matter path, the path of the page is the
\* directory components joined by '/', then '/', then the slug, and a trailing
\* '/' only when that string does not end with one already (it does when the
\* slug is empty below directory components, or ends with '/'); the permalink
\* is the base URL joined with the path.
C5_PathOfDirectoriesAndSlug ==
  (page.some /\ ~page.v.meta.path.some) =>
    /\ page.v.path =
         WithTrailingSlash(Directories(page.v.file.components) \o page.v.slug)
    /\ page.v.permalink = JoinedUrl(args.base_url, page.v.path)

\* slug "hello-world" on content/posts/intro/start.md under http://hello.com/
C5_Witness ==
  /\ page.some
  /\ ~page.v.meta.path.some
  /\ page.v.meta.slug = Some(StrHelloWorld)
  /\ page.v.file.components = << StrPosts, StrIntro >>
  /\ args.base_url = UrlHello
  /\ page.v.path = StrPosts \o << "/" >> \o StrIntro \o << "/" >>
                     \o StrHelloWorld \o << "/" >>
  /\ page.v.permalink = UrlHello \o page.v.path

(***************************************************************************)
(* C6.  Page::parse on a text with no opening front-matter delimiter       *)
(* returns an error and no page.                                           *)
(***************************************************************************)
\* the first line that is not blank is the delimiter
OpensWithDelimiter(content) ==
  \E i \in DOMAIN content :
    content[i] = Delim /\ \A j \in 1..(i - 1) : content[j] = Blank

C6_NoFrontMatterIsError ==
  (Parsed /\ args.content.some /\ ~OpensWithDelimiter(args.content.v)) =>
    result = "err" /\ ~page.some

\* front-matter lines and the closing delimiter, without the opening one
C6_Witness ==
  /\ op = "parse"
  /\ ~OpensWithDelimiter(args.content.v)
  /\ \E i \in DOMAIN args.content.v :
       i > 1 /\ args.content.v[i] = Delim /\ args.content.v[1].t = "slug"
  /\ result = "err"

(***************************************************************************)
(* C7.  After a successful render_markdown the summary is present exactly  *)
(* when the markdown transform reported a summary offset, and it is then   *)
(* the prefix of the rendered content of that length.                      *)
(***************************************************************************)
C7_SummaryIsPrefix ==
  (op = "render_markdown" /\ result = "ok") =>
    /\ page.v.summary.some <=> res.summary_len.some
    /\ page.v.summary.some =>
         /\ Len(page.v.summary.v) = res.summary_len.v
         /\ Len(page.v.summary.v) <= Len(page.v.content)
         /\ \A i \in DOMAIN page.v.summary.v :
              page.v.summary.v[i] = page.v.content[i]

\* a body with text before and after the marker
C7_Witness ==
  /\ op = "render_markdown" /\ result = "ok"
  /\ More \in Range(page.v.raw_content)
  /\ page.v.summary.some
  /\ Len(page.v.summary.v) > 0
  /\ Len(page.v.summary.v) + 1 < Len(page.v.content)

(***************************************************************************)
(* C8.  Page::from_file gives a page whose stem is not "index" no asset,   *)
(* and an index page the files the scan of its directory finds, less those *)
(* whose file name matches the ignore globset.                             *)
(***************************************************************************)
\* the path of an entry of the directory of the content file
AssetPath(e) == Append(PathParent(args.file_path).v, Normal(e.name, e.ext))

\* a glob of the set matches the bare file name of the entry
NameMatches(globset, e) == \E g \in globset : g.dir = << >> /\ e.ext \in g.exts

C8_AssetsOfPage ==
  (op = "from_file" /\ result = "ok") =>
    IF page.v.file.name # StrIndex THEN page.v.assets = << >>
    ELSE /\ \A e \in Range(args.listing) :
              AssetPath(e) \in Range(page.v.assets)
                <=> /\ e.is_file
                    /\ e.ext # StrMd
                    /\ ~(args.globset.some /\ NameMatches(args.globset.v, e))
         /\ Range(page.v.assets) \subseteq { AssetPath(e) : e \in Range(args.listing) }
         /\ Cardinality(Range(page.v.assets)) = Len(page.v.assets)

\* an index page in "With Assets" beside three files, with a glob on that
\* directory's jpg files, which the bare file name does not match
C8_Witness ==
  /\ op = "from_file" /\ result = "ok"
  /\ page.v.file.name = StrIndex
  /\ args.globset = Some({ Glob(StrWithAssets, { StrJpg }) })
  /\ \E i \in 1..(Len(args.file_path) - 1) :
       ComponentStr(args.file_path[i]) = StrWithAssets
  /\ Len(page.v.assets) = 3

\* an index page whose ignore globset leaves one of three files
C8_WitnessIgnored ==
  /\ op = "from_file" /\ result = "ok"
  /\ page.v.file.name = StrIndex
  /\ args.globset = Some({ Glob(<< >>, { StrJs, StrPng }) })
  /\ Len(args.listing) = 5
  /\ Len(page.v.assets) = 1

(***************************************************************************)
(* C9.  Without hard-linking, a call of copy_file_if_needed that returns   *)
(* Ok skips the copy, leaving the destination as it was, exactly when the  *)
(* destination was a file of the source's modification time and length;    *)
(* in every other case it writes the destination from the source.          *)
(***************************************************************************)
\* the destination the last call found was a file as recent and as long as
\* the source
FoundUpToDate ==
  /\ call.dest_before.kind = "file"
  /\ call.dest_before.mtime = call.src.mtime
  /\ call.dest_before.bytes.len = call.src.bytes.len

C9_SkipIffUpToDate ==
  (call.called /\ ~call.hard_link /\ call.result = "ok") =>
    /\ ~call.wrote <=> FoundUpToDate
    /\ FoundUpToDate => dest = call.dest_before
    /\ ~FoundUpToDate =>
         /\ dest.kind = "file"
         /\ dest.bytes.data = call.src.bytes.data
         /\ dest.bytes.optimized \/ dest.bytes = call.src.bytes

\* the test's case: "file2" at the destination, as old and as long as the
\* source "file1", is left alone
C9_Witness ==
  /\ call.called /\ ~call.hard_link /\ call.result = "ok"
  /\ ~call.wrote
  /\ call.src.bytes.data = "file1"
  /\ dest.bytes.data = "file2"
  /\ dest.mtime = src.mtime

\* a destination as old as the source but longer is written over
C9_WitnessCopied ==
  /\ call.called /\ ~call.hard_link /\ call.result = "ok"
  /\ call.wrote
  /\ call.dest_before.kind = "file"
  /\ call.dest_before.mtime = call.src.mtime
  /\ dest.bytes = src.bytes

(***************************************************************************)
(* C10.  Of two calls of copy_file_if_needed in a row with the same        *)
(* arguments and an unchanged source, the second succeeds, writes nothing  *)
(* and leaves the destination's bytes and modification time as they were,  *)
(* for every hard_link flag and optimization level: the claim as it stands.*)
(***************************************************************************)
\* the last two calls had the same arguments, nothing changed in between,
\* and the first of them returned Ok
CalledTwice ==
  /\ prev.called /\ call.called
  /\ prev.hard_link = call.hard_link
  /\ prev.configoptimize = call.configoptimize
  /\ prev.result = "ok"

C10_SecondCallIsNoOp ==
  CalledTwice =>
    /\ call.result = "ok"
    /\ ~call.wrote
    /\ dest = call.dest_before

\* the last call optimized, or would optimize, a PNG to another length
OptimizingChangesLength ==
  /\ IsPngToOptimize(src_ext, call.configoptimize)
  /\ optimize(call.src.bytes,
              get_png_optimzation_options(call.configoptimize)).len
       # call.src.bytes.len

\* C10, amended.  Of two calls in a row with the same arguments and an
\* unchanged source, the second succeeds, writes nothing and leaves the
\* destination as it was, when hard_link is false and the call does not
\* optimize a PNG to another length.  (With hard_link the second call fails:
\* the destination exists.  After an optimization that changed the length the
\* second call optimizes again.)
C10_SecondPlainCopyIsNoOp ==
  (CalledTwice /\ ~call.hard_link /\ ~OptimizingChangesLength) =>
    /\ call.result = "ok"
    /\ ~call.wrote
    /\ dest = call.dest_before

\* the first call copied the bytes and the second found them up to date
C10_Witness ==
  /\ CalledTwice /\ ~call.hard_link
  /\ prev.wrote /\ ~call.wrote
  /\ call.result = "ok"
  /\ dest.bytes = src.bytes
  /\ dest.mtime = src.mtime


\* a call of copy_file_if_needed without hard-linking has returned Ok, and
\* nothing has changed since
CopiedOk == call.called /\ ~call.hard_link /\ call.result = "ok"

\* C11: whenever copy_file_if_needed, without hard-linking, writes the
\* destination, by plain copy or by PNG optimization, the destination then
\* has the modification time of the source, so that after every call that
\* returns Ok the destination's modification time is the source's.
C11_DestMtimeIsSourceMtime ==
  CopiedOk => /\ dest.kind = "file"
              /\ dest.mtime = src.mtime
              /\ call.wrote => dest.mtime = call.src.mtime

\* a PNG was optimized over a destination file of another modification time
C11_Witness ==
  /\ CopiedOk
  /\ call.wrote
  /\ IsPngToOptimize(src_ext, call.configoptimize)
  /\ call.dest_before.kind = "file"
  /\ call.dest_before.mtime # src.mtime

\* a plain copy wrote a destination that was missing
C11_WitnessPlainCopy ==
  /\ CopiedOk
  /\ call.wrote
  /\ ~IsPngToOptimize(src_ext, call.configoptimize)
  /\ call.dest_before.kind = "missing"
  /\ src.mtime # Now

\* C12: in copy_file_if_needed a failure to read the metadata of the
\* destination during the staleness check is recovered locally: the
\* destination counts as not skippable, the copy is performed, and the call
\* returns no error for that failure.
C12_DestReadFailureIsRecovered ==
  (step.pc = "done" /\ step.dest_read_failed # "none")
    => step.copied /\ step.error_at # "metadata(dest)"

\* C12, the read of fs.rs 123: when Path::is_file cannot read the metadata
\* of the destination the call goes on to copy, and returns no error for
\* that read.
C12_IsFileFailureFallsThrough ==
  (step.pc = "done" /\ step.dest_read_failed = "is_file")
    => step.copied /\ step.error_at # "metadata(dest)"

\* the destination was missing at fs.rs 123 and the call copied and
\* returned Ok
C12_WitnessFallThrough ==
  /\ step.pc = "done"
  /\ step.dest_read_failed = "is_file"
  /\ step.result = "ok"
  /\ step.copied

\* the destination was a file at fs.rs 123 and gone at fs.rs 124
C12_WitnessPropagated ==
  /\ step.pc = "done"
  /\ step.dest_read_failed = "metadata"
  /\ step.result = "err"

\* the loop has taken a create, write, remove or rename event
TookChange == serve.event.kind \in ChangeEvents

\* what lies below pwd of a path of the site, its separators written '/'
BelowPwd(path) ==
  LET rest == SubSeq(path, Len(pwd) + 1, Len(path))
  IN  [i \in DOMAIN rest |-> IF IsSeparator(path, rest[i]) THEN "/" ELSE rest[i]]

\* the first component of "/a/b/c"
FirstComponent(rel) ==
  LET names == FilterNonEmpty(Split(rel, "/"))
  IN  IF Len(names) = 0 THEN << >> ELSE names[1]

\* the watched root a path of the site is under, as a kind of change
RootKind(path) ==
  LET root == FirstComponent(BelowPwd(path))
  IN  IF root = Tail(StrSlashTemplates) THEN "Templates"
      ELSE IF root = Tail(StrSlashContent) THEN "Content"
      ELSE IF root = Tail(StrSlashStatic) THEN "StaticFiles"
      ELSE "none"

\* C13: detect_change_kind classifies every changed path under one of the
\* three watched roots into exactly one kind, Templates under pwd/templates,
\* Content under pwd/content, StaticFiles under pwd/static, and returns the
\* path relative to pwd with '/' separators.
C13_ClassifiesByRoot ==
  (serve.classified /\ RootKind(serve.event.path) # "none")
    => /\ serve.change_kind = RootKind(serve.event.path)
       /\ serve.path_str = BelowPwd(serve.event.path)

\* C13, where the string of pwd occurs once in the path, at its start:
\* the kind is the root's and the path returned is the relative one.
C13_ClassifiesByRootWherePwdOccursOnce ==
  (/\ serve.classified
   /\ RootKind(serve.event.path) # "none"
   /\ Replace(serve.event.path, pwd, << >>)
        = SubSeq(serve.event.path, Len(pwd) + 1, Len(serve.event.path)))
    => /\ serve.change_kind = RootKind(serve.event.path)
       /\ serve.path_str = BelowPwd(serve.event.path)

\* a path of the static root was classified, with '\' separators turned
\* into '/'
C13_WitnessClassified ==
  /\ serve.classified
  /\ serve.change_kind = "StaticFiles"
  /\ pwd = PwdWindows
  /\ serve.path_str = TailStatic

\* a path of a watched root ended the loop in unreachable!()
C13_WitnessUnreachable ==
  /\ serve.pc = "panicked"
  /\ RootKind(serve.event.path) # "none"

\* nothing was done for the event the loop took last
NothingDone ==
  /\ serve.calls = << >>
  /\ serve.work = NoWork
  /\ serve.sent = << >>

\* C14: a change event whose path is under none of the content, templates
\* and static roots is never mapped to a rebuild action: classification
\* fails hard, no rebuild or copy runs and no reload is broadcast for it.
C14_OutsideRootsFailHard ==
  (TookChange /\ RootKind(serve.event.path) = "none")
    => /\ NothingDone
       /\ serve.classified => serve.pc = "panicked"

\* C14, of the paths detect_change_kind does not classify: the loop ends
\* there, nothing is rebuilt, copied or broadcast.
C14_UnclassifiedFailsHard ==
  (serve.classified /\ serve.change_kind = "unreachable")
    => NothingDone /\ serve.pc = "panicked"

\* a path outside the roots ended the loop
C14_WitnessPanicked ==
  /\ serve.pc = "panicked"
  /\ RootKind(serve.event.path) = "none"

\* a path outside the roots was rebuilt as content and a reload broadcast
C14_WitnessRebuilt ==
  /\ RootKind(serve.event.path) = "none"
  /\ serve.change_kind = "Content"
  /\ serve.work.reparsed # << >>
  /\ serve.sent # << >>

StrUnderscores == << "_", "_" >>

\* the file name of a path is one an editor or the OS gives a temp file
MatchesTempPattern(path) ==
  LET name == Path_file_name(path)
      ext == Path_extension(path)
  IN  \/ ext.some /\ ext.v \in { StrSwp, StrSwx, StrTmp }
      \/ \E jb \in { StrJbOld, StrJbTmp, StrJbBak } :
           HasSuffix(name, StrUnderscores \o jb)
      \/ EndsWith(name, "~")
      \/ StartsWith(name, "#")
      \/ name = StrDotDsStore

\* the event was dropped before classification
Dropped == ~serve.classified /\ NothingDone /\ serve.pc \in { "filter", "recv" }

\* C15: in the serve loop every create, write, remove or rename event whose
\* path is an editor or OS temp file (extension swp, swx or tmp; JetBrains
\* suffix; trailing '~'; '#'-prefixed name; .DS_STORE) is dropped before
\* classification: no classification, no rebuild, no copy, no reload.
C15_TempFilesAreDropped ==
  (TookChange /\ MatchesTempPattern(serve.event.path)) => Dropped

\* C15, of the paths is_temp_file recognizes: they are dropped before
\* classification.
C15_RecognizedTempFilesAreDropped ==
  (TookChange /\ is_temp_file(serve.event.path)) => Dropped

\* a swap file was dropped
C15_WitnessDropped ==
  /\ TookChange
  /\ serve.filtered
  /\ serve.pc = "recv"
  /\ Path_extension(serve.event.path) = Some(StrSwp)

\* the backup of a file without extension was copied and a reload broadcast
C15_WitnessNotDropped ==
  /\ EndsWith(serve.event.path, "~")
  /\ serve.work.copied # << >>
  /\ serve.sent # << >>

\* the loop is through with the event it took last, and rebuilt for it
Rebuilt == serve.pc \in { "report", "recv" } /\ serve.res # "none"

\* the method of Site that rebuilds after a change of a kind
MethodOf(change_kind) ==
  IF change_kind = "Templates" THEN "rebuild_after_template_change"
  ELSE IF change_kind = "Content" THEN "rebuild_after_content_change"
  ELSE "copy_static_file"

C16_WitnessContent ==
  /\ Rebuilt
  /\ serve.pc = "recv"
  /\ serve.change_kind = "Content"
  /\ Len(serve.work.reparsed) = 1

\* C17: in serve mode a rebuild error does not stop the watch loop: after a
\* content, template or static rebuild returns an error the loop is back
\* waiting, and the events still queued are taken unless classification
\* itself ends the loop.
C17_LoopGoesOnAfterError ==
  /\ (serve.pc = "report" /\ serve.res = "err") ~> (serve.pc = "recv")
  /\ (serve.failures = 1 /\ rx # << >>)
       ~> (rx = << >> \/ serve.pc = "panicked")

\* an event was handled, and its rebuild succeeded, after an earlier
\* rebuild had failed
C17_Witness ==
  /\ serve.failures = 1
  /\ serve.id >= 2
  /\ serve.pc = "recv"
  /\ serve.res = "ok"
  /\ serve.sent # << >>

\* C18: in serve mode, when a rebuild fails, a failure notice is sent to
\* the live-reload channel, besides the report to the operator, and no
\* reload command is broadcast for the event; a reload command is broadcast
\* only for a rebuild that succeeded.
C18_FailureNoticeIsSent ==
  /\ (serve.pc = "recv" /\ serve.res = "err")
       => /\ serve.console # << >>
          /\ \E i \in DOMAIN serve.sent : serve.sent[i].command # "reload"
          /\ \A i \in DOMAIN serve.sent : serve.sent[i].command # "reload"
  /\ (\E i \in DOMAIN serve.sent : serve.sent[i].command = "reload")
       => serve.res = "ok"

\* C18, what is broadcast: a reload command only for a rebuild that
\* succeeded; for a rebuild that failed the operator is told and nothing is
\* broadcast.
C18_ReloadOnlyAfterSuccess ==
  /\ (serve.pc = "recv" /\ serve.res = "err")
       => serve.console = << StrFailedToBuild >> /\ serve.sent = << >>
  /\ serve.sent # << >>
       => /\ serve.res = "ok"
          /\ serve.sent = << Reload(serve.calls[1].reload_path) >>

\* a rebuild failed and the loop is through with the event
C18_WitnessFailed ==
  /\ serve.pc = "recv"
  /\ serve.res = "err"
  /\ serve.sent = << >>

\* C19: no rebuild overlaps another: at most one rebuild is in progress in
\* every reachable state, events are handled in the order they arrived, and
\* the loop takes the next event only when the rebuild, the copy and the
\* reporting of the event before have all completed.
C19_NoRebuildOverlaps ==
  /\ [](/\ building <= 1
        /\ building = 1 <=> serve.pc = "rebuilding"
        /\ serve.id > 0 => serve.event.seq = serve.id
        /\ \A i \in DOMAIN rx : rx[i].seq = serve.id + i)
  /\ [][serve'.id # serve.id
          => /\ serve.pc = "recv"
             /\ building = 0
             /\ serve.id > 0 /\ serve.calls # << >>
                  => /\ serve.res # "none"
                     /\ serve.sent # << >> \/ serve.console # << >>]_vars

\* a second event waits in the queue while the rebuild for the first runs
C19_Witness ==
  /\ building = 1
  /\ serve.pc = "rebuilding"
  /\ rx # << >>
  /\ rx[1].seq = serve.id + 1

\* the last call rendered the markdown of a page or of a section
Rendering == op \in { "render_markdown", "section_render_markdown" }

\* the page or the section the last call rendered
RenderedEntity == IF op = "render_markdown" THEN page.v ELSE section.v

\* the internal links of the entity that the table of the call does not hold
BrokenLinks ==
  { RenderedEntity.raw_content[i].v :
      i \in { j \in DOMAIN RenderedEntity.raw_content :
                RenderedEntity.raw_content[j].t = "link" } }
  \ rendered.permalinks

\* C20: an internal link ./identity that the permalink table does not hold
\* is never dropped nor rendered as it is: resolving it fails, and
\* Page::render_markdown and Section::render_markdown return an error that
\* names the source file being rendered.
C20_BrokenLinkIsAnError ==
  (Rendering /\ BrokenLinks # { })
    => /\ result = "err"
       /\ res.body = << >>
       /\ \E i \in DOMAIN rendered.error :
            rendered.error[i].file = RenderedEntity.file.path
       /\ \E i \in DOMAIN rendered.error :
            /\ rendered.error[i].msg = "BrokenLinkError"
            /\ rendered.error[i].link \in BrokenLinks

\* a page with a link to ./intro was rendered with a table without it
C20_Witness ==
  /\ op = "render_markdown"
  /\ StrIntro \in BrokenLinks
  /\ rendered.permalinks # { }
  /\ result = "err"

\* a section with a link was rendered with a table without it
C20_WitnessSection ==
  /\ op = "section_render_markdown"
  /\ BrokenLinks # { }
  /\ result = "err"

\* a section whose links the table holds was rendered
C20_WitnessResolved ==
  /\ op = "section_render_markdown"
  /\ \E i \in DOMAIN section.v.raw_content : section.v.raw_content[i].t = "link"
  /\ result = "ok"
  /\ section.v.content # << >>

PagePaths == { "a.md", "b.md", "c.md" }

Dates == { None, Some(1), Some(2) }

\* Page::new: a page without links
UnlinkedPage(path, date) ==
  [path |-> path, date |-> date, earlier |-> None, later |-> None]

\* how many links deep the page value is
RECURSIVE DepthOf(_)
DepthOf(p) ==
  LET e == IF p.earlier.some THEN 1 + DepthOf(p.earlier.v) ELSE 0
      l == IF p.later.some THEN 1 + DepthOf(p.later.v) ELSE 0
  IN  IF e > l THEN e ELSE l

\* the order of the paths
PathRank(path) == CASE path = "a.md" -> 1 [] path = "b.md" -> 2 [] OTHER -> 3

\* p comes before q by descending date, ties by ascending path
Before(p, q) ==
  \/ p.date.v > q.date.v
  \/ p.date.v = q.date.v /\ PathRank(p.path) < PathRank(q.path)

\* the pages with a date, the latest first
RECURSIVE SortByDate(_)
SortByDate(S) ==
  IF S = { } THEN << >>
  ELSE LET first == CHOOSE p \in S : \A q \in S \ { p } : Before(p, q)
       IN  << first >> \o SortByDate(S \ { first })

\* the value a link holds of page q: q as it is, or q without its own links
Embedded(q, cleared) ==
  IF cleared THEN [q EXCEPT !.earlier = None, !.later = None] ELSE q

\* the pages with the links of the date ordering filled in
PopulateByDate(input, cleared) ==
  LET sorted == SortByDate({ p \in input : p.date.some })
      n == Len(sorted)
      linked(i) ==
        [sorted[i] EXCEPT
           !.later = IF i > 1 THEN Some(Embedded(sorted[i - 1], cleared))
                     ELSE None,
           !.earlier = IF i < n THEN Some(Embedded(sorted[i + 1], cleared))
                       ELSE None]
  IN  { p \in input : ~p.date.some } \cup { linked(i) : i \in 1..n }

\* a page is read and added to the site
AddPage ==
  /\ Cardinality(pages) < MaxPages
  /\ \E path \in PagePaths \ { p.path : p \in pages }, date \in Dates :
       pages' = pages \cup { UnlinkedPage(path, date) }
  /\ UNCHANGED << library, view, coreVars, treeVars, evalVars >>

\* a page is removed from the site
RemovePage ==
  /\ \E p \in pages : pages' = pages \ { p }
  /\ UNCHANGED << library, view, coreVars, treeVars, evalVars >>

\* the pages are sorted by date and linked
Populate ==
  /\ \E cleared \in BOOLEAN :
       LET linked == PopulateByDate(pages, cleared)
       IN  /\ \A p \in linked : DepthOf(p) <= MaxDepth
           /\ pages' = linked
  /\ UNCHANGED << library, view, coreVars, treeVars, evalVars >>

LinkNext == AddPage \/ RemovePage \/ Populate

LinkSpec == Init /\ [][LinkNext]_vars

\* C22: for every page P with a date whose later link is set, the earlier
\* link of P.later is P.
C22_LaterEarlierIsP ==
  \A P \in pages :
    (P.date.some /\ P.later.some) => P.later.v.earlier = Some(P)

\* the page a link holds never holds the page that owns the link
C22_LinkNeverHoldsItsOwner ==
  \A P \in pages :
    /\ P.later.some => P.later.v.earlier # Some(P)
    /\ P.earlier.some => P.earlier.v.later # Some(P)

\* two dated pages are linked, the later one holding links of its own
C22_WitnessLinked ==
  \E P \in pages :
    /\ P.later.some
    /\ P.later.v.earlier.some
    /\ P.later.v.earlier.v.path = P.path
    /\ P.later.v.earlier # Some(P)

\* two dated pages are linked by values without links
C22_WitnessCleared ==
  \E P \in pages : P.later.some /\ P.later.v.earlier = None

(***************************************************************************)
(* The serialized views of a section (section.rs 20-84): the sections and  *)
(* pages of the Library are held by key, a view holds values.              *)
(***************************************************************************)
\* a section of the library: the keys of its direct pages and subsections
LibrarySection(key) ==
  [content |-> key, pages |-> << >>, subsections |-> << >>]

\* Page::to_serialized: the view of a page
Page_to_serialized(p) == [content |-> p.content]

\* SerializingSection::from_section; Section::to_serialized is the same call
RECURSIVE SerializingSection_from_section(_, _)
SerializingSection_from_section(s, lib) ==
  [ content |-> s.content,
    pages |-> [i \in DOMAIN s.pages |-> Page_to_serialized(lib.pages[s.pages[i]])],
    subsections |->
      [i \in DOMAIN s.subsections |->
         SerializingSection_from_section(lib.sections[s.subsections[i]], lib)] ]

\* SerializingSection::from_section_basic listing the keys of the children
SerializingSection_from_section_basic_with_keys(s) ==
  [content |-> s.content, pages |-> s.pages, subsections |-> s.subsections]

\* SerializingSection::from_section_basic
SerializingSection_from_section_basic(s) ==
  [content |-> s.content, pages |-> << >>, subsections |-> << >>]

\* a section is added to the library, the first as the index section and
\* the others below a section already there
AddSection ==
  /\ Len(library.sections) < MaxSections
  /\ LET key == Len(library.sections) + 1
     IN  \E parent \in IF key = 1 THEN { 0 } ELSE DOMAIN library.sections :
           library' =
             [library EXCEPT
                !.sections =
                  [k \in 1..key |->
                     IF k = key THEN LibrarySection(key)
                     ELSE IF k = parent
                     THEN [@[k] EXCEPT !.subsections = Append(@, key)]
                     ELSE @[k]]]
  /\ view' = NoView
  /\ UNCHANGED << pages, coreVars, treeVars, evalVars >>

\* a page is added to the library, in one of its sections
AddLibraryPage ==
  /\ Len(library.pages) < MaxLibraryPages
  /\ LET key == Len(library.pages) + 1
     IN  \E parent \in DOMAIN library.sections :
           library' =
             [library EXCEPT
                !.pages = Append(@, [content |-> key]),
                !.sections[parent].pages = Append(@, key)]
  /\ view' = NoView
  /\ UNCHANGED << pages, coreVars, treeVars, evalVars >>

\* section.to_serialized(library), as render_html calls it
ToSerialized ==
  /\ \E key \in DOMAIN library.sections :
       view' = [how |-> "to_serialized", key |-> key,
                value |-> SerializingSection_from_section(library.sections[key],
                                                          library)]
  /\ UNCHANGED << pages, library, coreVars, treeVars, evalVars >>

\* section.render_markdown(..): what it inserts as "section" in the context
RenderSection ==
  /\ \E key \in DOMAIN library.sections :
       view' = [how |-> "render_markdown", key |-> key,
                value |-> SerializingSection_from_section_basic(
                            library.sections[key])]
  /\ UNCHANGED << pages, library, coreVars, treeVars, evalVars >>

LibraryNext == AddSection \/ AddLibraryPage \/ ToSerialized \/ RenderSection

LibrarySpec == Init /\ [][LibraryNext]_vars

\* the section the view made last is of
Viewed == library.sections[view.key]

\* the views of the direct pages and subsections are there, in order
DirectChildrenAreCopies ==
  /\ Len(view.value.pages) = Len(Viewed.pages)
  /\ \A i \in DOMAIN Viewed.pages :
       view.value.pages[i] = Page_to_serialized(library.pages[Viewed.pages[i]])
  /\ Len(view.value.subsections) = Len(Viewed.subsections)
  /\ \A i \in DOMAIN Viewed.subsections :
       view.value.subsections[i].content
         = library.sections[Viewed.subsections[i]].content

\* C23: the view Section::to_serialized makes holds the section's direct
\* pages and direct subsections as values, and those subsections carry no
\* pages and no subsections of their own.
C23_ExpandsOneLevel ==
  view.how = "to_serialized"
    => /\ DirectChildrenAreCopies
       /\ \A i \in DOMAIN view.value.subsections :
            /\ view.value.subsections[i].pages = << >>
            /\ view.value.subsections[i].subsections = << >>

\* the view holds the direct children, and each subsection in it is the
\* whole view of that subsection, its own pages and subsections included
C23_ExpandsEveryLevel ==
  view.how = "to_serialized"
    => /\ DirectChildrenAreCopies
       /\ \A i \in DOMAIN Viewed.subsections :
            LET sub == library.sections[Viewed.subsections[i]]
            IN  /\ Len(view.value.subsections[i].pages) = Len(sub.pages)
                /\ Len(view.value.subsections[i].subsections)
                     = Len(sub.subsections)

\* the view of a section whose subsection has a page of its own
C23_WitnessNestedPage ==
  /\ view.how = "to_serialized"
  /\ \E i \in DOMAIN view.value.subsections :
       view.value.subsections[i].pages # << >>

\* the view of a section whose subsection has a subsection of its own
C23_WitnessNestedSection ==
  /\ view.how = "to_serialized"
  /\ \E i \in DOMAIN view.value.subsections :
       view.value.subsections[i].subsections # << >>

\* C24: the view of the section that Section::render_markdown puts in the
\* template context under "section" has no pages and no subsections,
\* whatever children the section has in the library.
C24_ContextViewHasNoChildren ==
  view.how = "render_markdown"
    => /\ view.value.pages = << >>
       /\ view.value.subsections = << >>
       /\ view.value.content = Viewed.content

\* a section with a page and a subsection was rendered
C24_Witness ==
  /\ view.how = "render_markdown"
  /\ Viewed.pages # << >>
  /\ Viewed.subsections # << >>

(***************************************************************************)
(* copy_directory (fs.rs 170-193) and copy_file (fs.rs 68-79) over a       *)
(* source tree and a destination tree.                                     *)
(***************************************************************************)
\* the files the paths of the trees may hold
TreeFiles ==
  { File(Bytes("file1", 5), 1), File(Bytes("longer file", 11), 1),
    File(Bytes("longer file", 11), 2) }

\* how far copy_directory got: how it ends, the destination tree, and the
\* paths it wrote bytes to
Walked(how, tree, wrote) == [result |-> how, dest |-> tree, wrote |-> wrote]

\* fs.rs 171-191: the entries of the walk from the i-th on
RECURSIVE WalkFrom(_, _, _, _, _)
WalkFrom(i, source, acc, hard_link, configoptimize) ==
  IF i > Len(TreePaths) \/ acc.result = "err" THEN acc
  ELSE
    LET path == TreePaths[i]
        target == acc.dest[path]
        parent == acc.dest[TreeParent(path)]
        r == copy_file_if_needed(source[path], TreeExt(path), target,
                                 hard_link, configoptimize)
        next ==
          IF source[path].kind = "missing" THEN acc
          ELSE IF source[path].kind = "dir"
          THEN IF target.kind # "missing" THEN acc
               ELSE IF path # "." /\ parent.kind # "dir"
               THEN Walked("err", acc.dest, acc.wrote)
               ELSE Walked("ok", [acc.dest EXCEPT ![path] = Directory], acc.wrote)
          ELSE IF parent.kind # "dir" THEN Walked("err", acc.dest, acc.wrote)
          ELSE Walked(r.result, [acc.dest EXCEPT ![path] = r.dest],
                      IF r.wrote THEN acc.wrote \cup { path } ELSE acc.wrote)
    IN  WalkFrom(i + 1, source, next, hard_link, configoptimize)

\* copy_directory taking every path of the destination as missing
copy_directory_to_empty(source, target, hard_link, configoptimize) ==
  LET walked == WalkFrom(1, source, Walked("ok", EmptyTree, { }), hard_link,
                         configoptimize)
  IN  Walked(walked.result,
             [p \in DOMAIN target |->
                IF walked.dest[p].kind = "missing" THEN target[p]
                ELSE walked.dest[p]],
             walked.wrote)

\* copy_directory(src, dest, hard_link, configoptimize)
copy_directory(source, target, hard_link, configoptimize) ==
  WalkFrom(1, source, Walked("ok", target, { }), hard_link, configoptimize)

\* a file of the source tree is written
WriteTreeSource ==
  /\ \E path \in { "a.txt", "d/b.png" }, file \in TreeFiles :
       /\ src_tree[TreeParent(path)].kind = "dir"
       /\ src_tree[path] # file
       /\ src_tree' = [src_tree EXCEPT ![path] = file]
       /\ dest_tree' = IF dest_tree[path].link
                       THEN [dest_tree EXCEPT ![path] = LinkOf(file)]
                       ELSE dest_tree
  /\ dir_call' = NoDirCall
  /\ UNCHANGED << coreVars, libVars, evalVars >>

\* the directory of the source tree is made
MakeTreeSourceDir ==
  /\ src_tree["d"].kind = "missing"
  /\ src_tree' = [src_tree EXCEPT !["d"] = Directory]
  /\ dir_call' = NoDirCall
  /\ UNCHANGED << dest_tree, coreVars, libVars, evalVars >>

\* a path of the destination tree is removed, with what is below it, or
\* given a file of its own
ChangeTreeDest ==
  /\ \E path \in { "a.txt", "d", "d/b.png" },
        entry \in TreeFiles \cup { Missing } :
       /\ dest_tree[TreeParent(path)].kind = "dir"
       /\ dest_tree[path] # entry
       /\ dest_tree' = [p \in DOMAIN dest_tree |->
                          IF p = path THEN entry
                          ELSE IF TreeParent(p) = path THEN Missing
                          ELSE dest_tree[p]]
  /\ dir_call' = NoDirCall
  /\ UNCHANGED << src_tree, coreVars, libVars, evalVars >>

\* copy_directory(src, dest, hard_link, configoptimize)
CopyDirectory ==
  /\ \E hard_link \in BOOLEAN, configoptimize \in { None, Some(2) } :
       LET r == copy_directory(src_tree, dest_tree, hard_link, configoptimize)
       IN  /\ dest_tree' = r.dest
           /\ dir_call' =
                [called |-> TRUE, hard_link |-> hard_link,
                 configoptimize |-> configoptimize, result |-> r.result,
                 wrote |-> r.wrote, dest_before |-> dest_tree,
                 second |-> /\ dir_call.called
                            /\ dir_call.result = "ok"
                            /\ dir_call.hard_link = hard_link
                            /\ dir_call.configoptimize = configoptimize]
  /\ UNCHANGED << src_tree, coreVars, libVars, evalVars >>

TreeNext ==
  WriteTreeSource \/ MakeTreeSourceDir \/ ChangeTreeDest \/ CopyDirectory

TreeSpec == Init /\ [][TreeNext]_vars

\* the regular files of the source tree
SourceFiles == { p \in DOMAIN src_tree : src_tree[p].kind = "file" }

\* the destination of the path was up to date before the call
TreeUpToDate(path) ==
  /\ dir_call.dest_before[path].kind = "file"
  /\ SameMetadata(src_tree[path], dir_call.dest_before[path])

\* every regular file of the source is at its mirrored path, skipped if it
\* was up to date and written if not, below directories made on the way
Mirrored ==
  \A path \in SourceFiles :
    /\ dest_tree[TreeParent(path)].kind = "dir"
    /\ dest_tree[path].kind = "file"
    /\ dest_tree[path].bytes.data = src_tree[path].bytes.data
         \/ TreeUpToDate(path)
    /\ ~dir_call.hard_link
         => /\ path \notin dir_call.wrote <=> TreeUpToDate(path)
            /\ TreeUpToDate(path)
                 => dest_tree[path] = dir_call.dest_before[path]

\* C25: copy_directory copies every regular file of the source tree to its
\* mirrored path by the staleness rule of copy_file_if_needed, making the
\* missing directories, with hard_link or without; so a second call over an
\* unchanged tree succeeds and writes nothing.
C25_SecondWalkIsNoOp ==
  /\ (dir_call.called /\ dir_call.result = "ok") => Mirrored
  /\ dir_call.second
       => /\ dir_call.result = "ok"
          /\ dir_call.wrote = { }
          /\ dest_tree = dir_call.dest_before

\* the last call optimized a PNG of the tree to another length
TreeOptimizingChangesLength ==
  \E path \in SourceFiles :
    /\ IsPngToOptimize(TreeExt(path), dir_call.configoptimize)
    /\ optimize(src_tree[path].bytes,
                get_png_optimzation_options(dir_call.configoptimize)).len
         # src_tree[path].bytes.len

\* without hard_link and without a PNG optimized to another length, the
\* files are mirrored and the second call is a no-op
C25_SecondPlainWalkIsNoOp ==
  /\ (dir_call.called /\ dir_call.result = "ok") => Mirrored
  /\ (dir_call.second /\ ~dir_call.hard_link /\ ~TreeOptimizingChangesLength)
       => /\ dir_call.result = "ok"
          /\ dir_call.wrote = { }
          /\ dest_tree = dir_call.dest_before

\* with hard_link the second call over a tree with a file fails
C25_SecondLinkingWalkFails ==
  (dir_call.second /\ dir_call.hard_link /\ SourceFiles # { })
    => dir_call.result = "err"

\* the second call with hard_link failed on the link made by the first
C25_WitnessLinkedTwice ==
  /\ dir_call.second /\ dir_call.hard_link
  /\ dir_call.result = "err"
  /\ \E path \in SourceFiles : dir_call.dest_before[path].link

\* the second plain call found both files of the tree up to date
C25_WitnessPlainTwice ==
  /\ dir_call.second /\ ~dir_call.hard_link
  /\ dir_call.result = "ok"
  /\ dir_call.wrote = { }
  /\ SourceFiles = { "a.txt", "d/b.png" }

\* a first call made the directory and wrote the file in it
C25_WitnessMadeDirectory ==
  /\ dir_call.called /\ dir_call.result = "ok"
  /\ dir_call.dest_before["d"].kind = "missing"
  /\ "d/b.png" \in dir_call.wrote

\* the arm of the static files has run for the event taken last
StaticArmRan ==
  /\ serve.change_kind = "StaticFiles"
  /\ serve.pc \in { "rebuilding", "report", "recv" }

\* what the arm of the static files does: one copy of the file of the event
\* if it is a file, nothing otherwise
CopiedOneFileIfFile ==
  StaticArmRan
    => /\ serve.is_file
            => /\ serve.calls = << Call("copy_static_file", serve.path_str) >>
               /\ Rebuilt => serve.work = Work(<< >>, << >>, << serve.event.path >>)
       /\ ~serve.is_file
            => /\ serve.calls = << >>
               /\ serve.work = NoWork
               /\ serve.res = "none"
               /\ serve.sent = << >>
               /\ serve.pc = "recv"

\* C26: for a change event of a path under the static root, the serve loop
\* calls copy_static_file once, on the path of the event, with no reparse
\* and no render, and only when the path is a regular file as the event is
\* handled; when it is not, nothing is copied and nothing is sent to the
\* live-reload channel.
C26_StaticRootChangeCopiesOneFile ==
  (/\ TookChange
   /\ RootKind(serve.event.path) = "StaticFiles"
   /\ ~MatchesTempPattern(serve.event.path)
   /\ serve.classified)
    => /\ serve.change_kind = "StaticFiles"
       /\ serve.pc # "panicked"
       /\ CopiedOneFileIfFile

\* C26, of the changes detect_change_kind classifies StaticFiles: one copy
\* of the file of the event if it is a file, nothing copied or sent if not.
C26_StaticChangeCopiesOneFile ==
  (TookChange /\ serve.classified /\ serve.change_kind = "StaticFiles")
    => CopiedOneFileIfFile

\* a change of a static file ended the loop before the arm of static files
C26_WitnessPanicked ==
  /\ TookChange
  /\ RootKind(serve.event.path) = "StaticFiles"
  /\ ~MatchesTempPattern(serve.event.path)
  /\ serve.pc = "panicked"
  /\ NothingDone

\* a static file was removed: the arm ran and copied nothing
C26_Witness ==
  /\ StaticArmRan
  /\ serve.event.kind = "Remove"
  /\ ~serve.is_file
  /\ serve.pc = "recv"

\* a static file was written and copied, and the reload was sent
C26_WitnessCopied ==
  /\ StaticArmRan
  /\ serve.is_file
  /\ serve.work.copied = << serve.event.path >>
  /\ serve.sent = << Reload(serve.path_str) >>

(***************************************************************************)
(* The template function get_url (global_fns.rs 78-113).  Its arguments    *)
(* are tera values: strings, numbers or booleans, each given or not.       *)
(***************************************************************************)
\* a value is its type and, as a string, what it holds
StringValue(s) == [t |-> "string", v |-> s]

NumberValue(n) == [t |-> "number", v |-> << n >>]

BoolValue(b) == [t |-> "bool", v |-> IF b THEN << "true" >> ELSE << "false" >>]

StrAppCss == << "a", "p", "p", ".", "c", "s", "s" >>

StrDotSlash == << ".", "/" >>

StrCachebust == << "?", "t", "=" >>

DigitSeq == << "0", "1", "2", "3", "4", "5", "6", "7", "8", "9" >>

\* the decimal digits of a number, as {} formats it
RECURSIVE to_string(_)
to_string(n) ==
  IF n < 10 THEN << DigitSeq[n + 1] >>
  ELSE to_string(n \div 10) \o << DigitSeq[(n % 10) + 1] >>

\* the values of `path` and of `link`: not given, a static file, internal
\* links, the empty string, and values that are not strings
PathValues ==
  { None, Some(StringValue(StrAppCss)), Some(StringValue(StrDotSlash \o StrStart)),
    Some(StringValue(StrDotSlash \o StrIntro)), Some(StringValue(StrDotSlash)),
    Some(StringValue(<< >>)), Some(NumberValue("1")) }

LinkValues == { None, Some(StringValue(StrDotSlash \o StrIntro)), Some(BoolValue(TRUE)) }

CachebustValues ==
  { None, Some(BoolValue(TRUE)), Some(BoolValue(FALSE)),
    Some(StringValue(<< "t", "r", "u", "e" >>)) }

\* Config.build_timestamp, as the tests and a build set it
BuildTimestamps == { 1, 42 }

\* the permalink the table holds for an identity
PermalinkOf(identity) == make_permalink(UrlWebsite, identity)

\* what a function returns: Ok(v) or Err(message), the message as a
\* sequence of one string
Returned(kind, v) == [kind |-> kind, v |-> v]

\* utils::site::resolve_internal_link: the entry of the table for the
\* link without its "./"
resolve_internal_link(link, permalinks) ==
  LET identity == SubSeq(link, Len(StrDotSlash) + 1, Len(link))
  IN  IF identity \in permalinks THEN Returned("ok", PermalinkOf(identity))
      ELSE Returned("err", << "not found" >>)

\* from_value::<String>(val)
from_value_string(val) ==
  IF val.t = "string" THEN Returned("ok", val.v) ELSE Returned("err", << "not a string" >>)

\* global_fns.rs 80-84: cachebust read as a bool, false when it is not one
ReadCachebust(get_cachebust) ==
  IF ~get_cachebust.some THEN FALSE
  ELSE IF get_cachebust.v.t = "bool" THEN get_cachebust.v = BoolValue(TRUE)
  ELSE FALSE

\* the closure of make_get_url with every cachebust value read as true
get_url_busting_any(fn_args, permalinks, config) ==
  LET cachebust == fn_args.cachebust.some
      given == IF fn_args.link.some THEN fn_args.link ELSE fn_args.path
      read == from_value_string(given.v)
      resolved == resolve_internal_link(read.v, permalinks)
      permalink == make_permalink(config.base_url, read.v)
  IN  IF ~given.some
      THEN Returned("err", << "get_url requires a path argument." >>)
      ELSE IF read.kind = "err"
      THEN Returned("err", << "get_url received path but it requires a string" >>)
      ELSE IF HasPrefix(read.v, StrDotSlash)
      THEN IF resolved.kind = "ok" THEN resolved
           ELSE Returned("err", << "Could not resolve URL for link" >>)
      ELSE IF cachebust
      THEN Returned("ok", permalink \o StrCachebust
                            \o to_string(config.build_timestamp))
      ELSE Returned("ok", permalink)

\* the closure make_get_url returns (global_fns.rs 79-112)
get_url(fn_args, permalinks, config) ==
  LET cachebust == ReadCachebust(fn_args.cachebust)
      given == IF fn_args.link.some THEN fn_args.link ELSE fn_args.path
      read == from_value_string(given.v)
      resolved == resolve_internal_link(read.v, permalinks)
      permalink == make_permalink(config.base_url, read.v)
  IN  IF ~given.some
      THEN Returned("err", << "get_url requires a path argument." >>)
      ELSE IF read.kind = "err"
      THEN Returned("err", << "get_url received path but it requires a string" >>)
      ELSE IF HasPrefix(read.v, StrDotSlash)
      THEN IF resolved.kind = "ok" THEN resolved
           ELSE Returned("err", << "Could not resolve URL for link" >>)
      ELSE IF cachebust
      THEN Returned("ok", permalink \o StrCachebust
                            \o to_string(config.build_timestamp))
      ELSE Returned("ok", permalink)

\* a template calls get_url(path=.., link=.., cachebust=..)
GetUrl ==
  /\ eval.fn = "none"
  /\ \E path \in PathValues, link \in LinkValues, bust \in CachebustValues,
        permalinks \in PermalinkTables, base_url \in BaseUrls,
        build_timestamp \in BuildTimestamps :
       LET fn_args == [path |-> path, link |-> link, cachebust |-> bust]
           config == [base_url |-> base_url, build_timestamp |-> build_timestamp]
       IN  eval' = [fn |-> "get_url",
                    args |-> [args |-> fn_args, permalinks |-> permalinks,
                              config |-> config],
                    out |-> get_url(fn_args, permalinks, config)]
  /\ UNCHANGED << coreVars, libVars, treeVars >>

GetUrlNext == GetUrl

GetUrlSpec == Init /\ [][GetUrlNext]_vars

\* the `path` get_url was given, or the deprecated `link` if it was given
GivenPath ==
  IF eval.args.args.link.some THEN eval.args.args.link ELSE eval.args.args.path

\* get_url was given a string as its path
GivenString == GivenPath.some /\ GivenPath.v.t = "string"

\* cachebust was given and is true
CachebustIsTrue ==
  /\ eval.args.args.cachebust.some
  /\ eval.args.args.cachebust.v = BoolValue(TRUE)

\* C27: get_url returns, for a path that starts with "./", the entry of the
\* permalink table for it, or an error when the table has none; for any
\* other path the permalink of the path under the base URL, followed by
\* "?t=<build timestamp>" if and only if cachebust is true; and an error
\* when the path (or the deprecated link) is not given or is not a string.
C27_GetUrl ==
  eval.fn = "get_url"
    => /\ ~GivenString => eval.out.kind = "err"
       /\ (GivenString /\ HasPrefix(GivenPath.v.v, StrDotSlash))
            => LET identity == SubSeq(GivenPath.v.v, 3, Len(GivenPath.v.v))
               IN  IF identity \in eval.args.permalinks
                   THEN eval.out = Returned("ok", PermalinkOf(identity))
                   ELSE eval.out.kind = "err"
       /\ (GivenString /\ ~HasPrefix(GivenPath.v.v, StrDotSlash))
            => LET url == make_permalink(eval.args.config.base_url, GivenPath.v.v)
                   t == StrCachebust \o to_string(eval.args.config.build_timestamp)
               IN  /\ eval.out.kind = "ok"
                   /\ CachebustIsTrue => eval.out.v = url \o t
                   /\ ~CachebustIsTrue => eval.out.v = url

\* the test can_add_cachebust_to_url: http://a-website.com/app.css/?t=1
C27_Witness ==
  /\ eval.fn = "get_url"
  /\ GivenPath = Some(StringValue(StrAppCss))
  /\ CachebustIsTrue
  /\ eval.out = Returned("ok", UrlWebsite \o << "/" >> \o StrAppCss
                                 \o << "/", "?", "t", "=", "1" >>)

\* an internal link the table holds was resolved
C27_WitnessResolved ==
  /\ eval.fn = "get_url"
  /\ GivenString /\ HasPrefix(GivenPath.v.v, StrDotSlash)
  /\ eval.out.kind = "ok"

\* a cachebust that is not a bool left the URL as it is
C27_WitnessNotBool ==
  /\ eval.fn = "get_url"
  /\ eval.args.args.cachebust.some
  /\ eval.args.args.cachebust.v.t = "string"
  /\ eval.out = Returned("ok", UrlWebsite \o << "/" >> \o StrAppCss \o << "/" >>)

(***************************************************************************)
(* Dates of the front matter (de.rs): parse_yaml_datetime reads a string   *)
(* with a regular expression and sets the fields of a date-time one by     *)
(* one; from_unknown_datetime takes a TOML datetime or a string.           *)
(***************************************************************************)
\* the character at a position, "" past the end
CharAt(s, i) == IF i \in DOMAIN s THEN s[i] ELSE ""

IsBlank(c) == c \in { " ", "\t" }

\* [ \t]*: the first position at or after i that holds no blank
RECURSIVE SkipBlanks(_, _)
SkipBlanks(s, i) == IF IsBlank(CharAt(s, i)) THEN SkipBlanks(s, i + 1) ELSE i

\* the number of digits that start at position i
RECURSIVE DigitRun(_, _)
DigitRun(s, i) == IF CharAt(s, i) \in Digits THEN 1 + DigitRun(s, i + 1) ELSE 0

\* [0-9][0-9]?: how many digits the pattern takes at position i
OneOrTwoDigits(s, i) == IF DigitRun(s, i) >= 2 THEN 2 ELSE DigitRun(s, i)

\* str::parse of a string of digits
RECURSIVE ParseDigits(_)
ParseDigits(s) ==
  IF Len(s) = 0 THEN 0
  ELSE 10 * ParseDigits(SubSeq(s, 1, Len(s) - 1))
         + (CHOOSE d \in 0..9 : DigitSeq[d + 1] = s[Len(s)])

\* the named groups of a match, each the text it captured or None
NoCaptures ==
  [matched |-> FALSE, year |-> << >>, month |-> << >>, day |-> << >>,
   hour |-> None, minute |-> None, second |-> None, fraction |-> None,
   offset_hour |-> None, offset_minute |-> None]

\* re.captures(date_string) for the pattern of de.rs:12.  Every choice of
\* the pattern is decided by the next character, so the match is a scan:
\* the operators below find, one after the other, where the year starts,
\* how long the month, the day and the hour are, and where the hour, the
\* zone and the offset are.
captures_at(s, p_year, n_month, n_day, p_hour, n_hour, p_zone, n_offset_hour) ==
  LET p_month == p_year + 5
      p_day == p_month + n_month + 1
      p_time == p_day + n_day
      p_minute == p_hour + n_hour + 1
      p_second == p_minute + 3
      p_fraction == p_second + 2
      date_ok ==
        /\ DigitRun(s, p_year) >= 4 /\ CharAt(s, p_year + 4) = "-"
        /\ n_month >= 1 /\ CharAt(s, p_month + n_month) = "-"
        /\ n_day >= 1
      has_time == CharAt(s, p_time) \in { "T", "t" } \/ IsBlank(CharAt(s, p_time))
      has_fraction == CharAt(s, p_fraction) = "."
      utc == CharAt(s, p_zone) = "Z"
      has_offset == CharAt(s, p_zone) \in { "-", "+" }
      p_colon == p_zone + 1 + n_offset_hour
      has_offset_minute == CharAt(s, p_colon) = ":"
      time_ok ==
        /\ n_hour >= 1 /\ CharAt(s, p_hour + n_hour) = ":"
        /\ DigitRun(s, p_minute) = 2 /\ CharAt(s, p_minute + 2) = ":"
        /\ DigitRun(s, p_second) = 2
        /\ has_fraction => DigitRun(s, p_fraction + 1) <= 9
        /\ has_offset => n_offset_hour >= 1
        /\ (has_offset /\ has_offset_minute) => DigitRun(s, p_colon + 1) = 2
      p_quote ==
        IF ~has_time THEN p_time
        ELSE IF utc THEN p_zone + 1
        ELSE IF has_offset
        THEN IF has_offset_minute THEN p_colon + 3 ELSE p_colon
        ELSE p_zone
      p_end == IF CharAt(s, p_quote) = "\"" THEN p_quote + 1 ELSE p_quote
  IN  IF date_ok /\ (has_time => time_ok) /\ p_end = Len(s) + 1
      THEN [matched |-> TRUE,
            year |-> SubSeq(s, p_year, p_year + 3),
            month |-> SubSeq(s, p_month, p_month + n_month - 1),
            day |-> SubSeq(s, p_day, p_day + n_day - 1),
            hour |-> IF has_time THEN Some(SubSeq(s, p_hour, p_hour + n_hour - 1))
                     ELSE None,
            minute |-> IF has_time THEN Some(SubSeq(s, p_minute, p_minute + 1))
                       ELSE None,
            second |-> IF has_time THEN Some(SubSeq(s, p_second, p_second + 1))
                       ELSE None,
            fraction |-> IF has_time /\ has_fraction
                         THEN Some(SubSeq(s, p_fraction,
                                          p_fraction + DigitRun(s, p_fraction + 1)))
                         ELSE None,
            offset_hour |-> IF has_time /\ has_offset
                            THEN Some(SubSeq(s, p_zone, p_colon - 1)) ELSE None,
            offset_minute |-> IF has_time /\ has_offset /\ has_offset_minute
                              THEN Some(SubSeq(s, p_colon + 1, p_colon + 2))
                              ELSE None]
      ELSE NoCaptures

\* (?:(?P<utc>Z)|(?P<offset>...)): the offset hour after the sign
captures_zone(s, p_year, n_month, n_day, p_hour, n_hour, p_zone) ==
  captures_at(s, p_year, n_month, n_day, p_hour, n_hour, p_zone,
              OneOrTwoDigits(s, p_zone + 1))

\* (?P<fraction>\.[0-9]{0,9})?[ \t]*: where the zone is
captures_fraction(s, p_year, n_month, n_day, p_hour, n_hour) ==
  LET p_fraction == p_hour + n_hour + 6
  IN  captures_zone(s, p_year, n_month, n_day, p_hour, n_hour,
                    SkipBlanks(s, IF CharAt(s, p_fraction) = "."
                                  THEN p_fraction + 1 + DigitRun(s, p_fraction + 1)
                                  ELSE p_fraction))

\* (?:[Tt]|[ \t]+)(?P<hour>[0-9][0-9]?): where the hour is and its length
captures_hour(s, p_year, n_month, n_day, p_hour) ==
  captures_fraction(s, p_year, n_month, n_day, p_hour, OneOrTwoDigits(s, p_hour))

captures_time(s, p_year, n_month, n_day) ==
  LET p_time == p_year + 6 + n_month + n_day
  IN  captures_hour(s, p_year, n_month, n_day,
                    IF IsBlank(CharAt(s, p_time)) THEN SkipBlanks(s, p_time)
                    ELSE p_time + 1)

\* (?P<day>[0-9][0-9]?)
captures_day(s, p_year, n_month) ==
  captures_time(s, p_year, n_month, OneOrTwoDigits(s, p_year + 6 + n_month))

\* (?P<month>[0-9][0-9]?)
captures_month(s, p_year) ==
  captures_day(s, p_year, OneOrTwoDigits(s, p_year + 5))

\* ^"?(?P<year>[0-9]{4})
yaml_captures(s) == captures_month(s, IF CharAt(s, 1) = "\"" THEN 2 ELSE 1)

is_leap_year(year) == year % 4 = 0 /\ (year % 100 # 0 \/ year % 400 = 0)

days_in_month(year, month) ==
  IF month = 2 THEN IF is_leap_year(year) THEN 29 ELSE 28
  ELSE IF month \in { 4, 6, 9, 11 } THEN 30 ELSE 31

\* an OffsetDateTime: the local date and time, and the offset they are in
OffsetDateTime(year, month, day, hour, minute, second, nanosecond, offset) ==
  [year |-> year, month |-> month, day |-> day, hour |-> hour,
   minute |-> minute, second |-> second, nanosecond |-> nanosecond,
   offset |-> offset]

\* an offset of hours and minutes, east of UTC when positive
UtcOffset(hours, minutes) == [hours |-> hours, minutes |-> minutes]

UNIX_EPOCH == OffsetDateTime(1970, 1, 1, 0, 0, 0, 0, UtcOffset(0, 0))

\* trim_end_matches("0")
RECURSIVE TrimEndZeros(_)
TrimEndZeros(s) ==
  IF Len(s) > 0 /\ s[Len(s)] = "0" THEN TrimEndZeros(SubSeq(s, 1, Len(s) - 1))
  ELSE s

\* 10 to the power n
RECURSIVE Pow10(_)
Pow10(n) == IF n = 0 THEN 1 ELSE 10 * Pow10(n - 1)

\* de.rs:30-33 and 55: the nanoseconds of the captured fraction, "." and
\* up to nine digits
Nanoseconds(fraction_raw) ==
  LET fraction == TrimEndZeros(fraction_raw)
      digits == SubSeq(fraction, 2, Len(fraction))
  IN  IF Len(fraction) = 0 THEN 0
      ELSE ParseDigits(digits) * Pow10(9 - Len(digits))

\* UtcOffset::from_hms(hour, minute, 0) of the captured offset: a signed
\* hour, and the minutes given the sign of the hour
from_hms(offset_hour, offset_minute) ==
  LET hours == ParseDigits(Tail(offset_hour))
      minutes == IF offset_minute.some THEN ParseDigits(offset_minute.v) ELSE 0
      negative == offset_hour[1] = "-"
  IN  IF hours > 25 \/ minutes > 59 THEN Returned("err", << "ComponentRange" >>)
      ELSE Returned("ok", UtcOffset(IF negative THEN 0 - hours ELSE hours,
                                    IF negative THEN 0 - minutes ELSE minutes))

\* UNIX_EPOCH.to_offset(offset): the same instant, read in the offset
epoch_to_offset(offset) ==
  LET shift == 60 * offset.hours + offset.minutes
      local == IF shift < 0 THEN 24 * 60 + shift ELSE shift
  IN  IF shift < 0
      THEN OffsetDateTime(1969, 12, 31, local \div 60, local % 60, 0, 0, offset)
      ELSE OffsetDateTime(1970, 1, 1, local \div 60, local % 60, 0, 0, offset)

\* replace_month with any month past December read as December
replace_month_defaulting(date, month) ==
  LET m == IF month > 12 THEN 12 ELSE month
  IN  IF m \notin 1..12 \/ date.day > days_in_month(date.year, m)
      THEN Returned("err", << "ComponentRange" >>)
      ELSE Returned("ok", [date EXCEPT !.month = m])

\* de.rs:50: Month::try_from(month) and replace_month, which keeps the day
\* and fails if the month has no such day
replace_month(date, month) ==
  IF month \notin 1..12 \/ date.day > days_in_month(date.year, month)
  THEN Returned("err", << "ComponentRange" >>)
  ELSE Returned("ok", [date EXCEPT !.month = month])

\* de.rs:51
replace_day(date, day) ==
  IF day \notin 1..days_in_month(date.year, date.month)
  THEN Returned("err", << "ComponentRange" >>)
  ELSE Returned("ok", [date EXCEPT !.day = day])

\* de.rs:52-54
replace_time(date, hour, minute, second) ==
  IF hour > 23 \/ minute > 59 \/ second > 59
  THEN Returned("err", << "ComponentRange" >>)
  ELSE Returned("ok", [date EXCEPT !.hour = hour, !.minute = minute,
                                   !.second = second])

\* de.rs:18-55: the date-time of the captured groups
datetime_of_captures(captures) ==
  LET text(group) == IF group.some THEN group.v ELSE << "0" >>
      offset == from_hms(captures.offset_hour.v, captures.offset_minute)
      offset_datetime ==
        IF captures.offset_hour.some THEN epoch_to_offset(offset.v)
        ELSE UNIX_EPOCH
      \* replace_year keeps the month and the day, 1 January or 31 December
      with_year == [offset_datetime EXCEPT !.year = ParseDigits(captures.year)]
      with_month == replace_month(with_year, ParseDigits(captures.month))
      with_day == replace_day(with_month.v, ParseDigits(captures.day))
      with_time == replace_time(with_day.v, ParseDigits(text(captures.hour)),
                                ParseDigits(text(captures.minute)),
                                ParseDigits(text(captures.second)))
  IN  IF ~captures.matched
      THEN Returned("err", << "Error parsing YAML datetime" >>)
      ELSE IF captures.offset_hour.some /\ offset.kind = "err" THEN offset
      ELSE IF with_month.kind = "err" THEN with_month
      ELSE IF with_day.kind = "err" THEN with_day
      ELSE IF with_time.kind = "err" THEN with_time
      ELSE Returned("ok", [with_time.v EXCEPT !.nanosecond =
                             Nanoseconds(IF captures.fraction.some
                                         THEN captures.fraction.v ELSE << >>)])

\* de.rs:10-56
parse_yaml_datetime(date_string) == datetime_of_captures(yaml_captures(date_string))

\* a time of day at position i, as TOML writes it: hh:mm:ss, a fraction
\* and an offset, Z or +hh:mm
toml_time(s, i) ==
  LET has_fraction == CharAt(s, i + 8) = "."
      n_fraction == DigitRun(s, i + 9)
      p_zone == IF has_fraction THEN i + 9 + n_fraction ELSE i + 8
      utc == CharAt(s, p_zone) \in { "Z", "z" }
      has_offset == CharAt(s, p_zone) \in { "-", "+" }
      p_end == IF utc THEN p_zone + 1 ELSE IF has_offset THEN p_zone + 6 ELSE p_zone
      fraction == TrimEndZeros(SubSeq(s, i + 8, p_zone - 1))
      ok ==
        /\ DigitRun(s, i) = 2 /\ CharAt(s, i + 2) = ":"
        /\ DigitRun(s, i + 3) = 2 /\ CharAt(s, i + 5) = ":"
        /\ DigitRun(s, i + 6) = 2
        /\ has_fraction => n_fraction >= 1
        /\ has_offset => /\ DigitRun(s, p_zone + 1) = 2
                         /\ CharAt(s, p_zone + 3) = ":"
                         /\ DigitRun(s, p_zone + 4) = 2
                         /\ ParseDigits(SubSeq(s, p_zone + 1, p_zone + 2)) <= 23
                         /\ ParseDigits(SubSeq(s, p_zone + 4, p_zone + 5)) <= 59
        /\ p_end = Len(s) + 1
        /\ ParseDigits(SubSeq(s, i, i + 1)) <= 23
        /\ ParseDigits(SubSeq(s, i + 3, i + 4)) <= 59
        /\ ParseDigits(SubSeq(s, i + 6, i + 7)) <= 60
  IN  [ok |-> ok,
       text |-> IF ~ok THEN << >>
                ELSE SubSeq(s, i, i + 7)
                       \o (IF Len(fraction) > 1 THEN fraction ELSE << >>)
                       \o (IF utc THEN << "Z" >>
                           ELSE IF has_offset THEN SubSeq(s, p_zone, p_zone + 5)
                           ELSE << >>)]

\* toml::value::Datetime::from_str(s) and to_string of what it read: a
\* date, a time or both, the two joined by "T"
toml_datetime_from_str(s) ==
  LET has_date ==
        /\ DigitRun(s, 1) = 4 /\ CharAt(s, 5) = "-"
        /\ DigitRun(s, 6) = 2 /\ CharAt(s, 8) = "-"
        /\ DigitRun(s, 9) = 2
      date_ok ==
        /\ ParseDigits(SubSeq(s, 6, 7)) \in 1..12
        /\ ParseDigits(SubSeq(s, 9, 10)) \in 1..31
      time == toml_time(s, IF has_date THEN 12 ELSE 1)
  IN  IF has_date /\ date_ok /\ Len(s) = 10 THEN Returned("ok", s)
      ELSE IF has_date /\ date_ok /\ CharAt(s, 11) \in { "T", "t", " " } /\ time.ok
      THEN Returned("ok", SubSeq(s, 1, 10) \o << "T" >> \o time.text)
      ELSE IF ~has_date /\ time.ok THEN Returned("ok", time.text)
      ELSE Returned("err", << "invalid datetime" >>)

\* the digits of n, with zeros before them up to a width
RECURSIVE Padded(_, _)
Padded(n, width) ==
  IF Len(to_string(n)) >= width THEN to_string(n)
  ELSE << "0" >> \o Padded(n, width - 1)

\* the nine digits of the nanoseconds without the zeros at their end
FractionDigits(nanosecond) == TrimEndZeros(Padded(nanosecond, 9))

\* d.format(&Rfc3339)
format_rfc3339(d) ==
  LET abs(n) == IF n < 0 THEN 0 - n ELSE n
  IN  Padded(d.year, 4) \o << "-" >> \o Padded(d.month, 2) \o << "-" >>
        \o Padded(d.day, 2) \o << "T" >> \o Padded(d.hour, 2) \o << ":" >>
        \o Padded(d.minute, 2) \o << ":" >> \o Padded(d.second, 2)
        \o (IF d.nanosecond = 0 THEN << >>
            ELSE << "." >> \o FractionDigits(d.nanosecond))
        \o (IF d.offset = UtcOffset(0, 0) THEN << "Z" >>
            ELSE << (IF d.offset.hours < 0 \/ d.offset.minutes < 0 THEN "-" ELSE "+") >>
                   \o Padded(abs(d.offset.hours), 2) \o << ":" >>
                   \o Padded(abs(d.offset.minutes), 2))

\* a TOML datetime given to the deserializer, held as what to_string gives
DatetimeValue(s) == [t |-> "datetime", v |-> s]

\* de.rs:62-92: Ok(Some(string)) or a deserialization error
from_unknown_datetime(value) ==
  LET toml == toml_datetime_from_str(value.v)
      yaml == parse_yaml_datetime(value.v)
  IN  IF value.t = "datetime" THEN Returned("ok", value.v)
      ELSE IF value.t # "string"
      THEN Returned("err", << "data did not match any variant of untagged enum MaybeDatetime" >>)
      ELSE IF toml.kind = "ok" THEN Returned("ok", toml.v)
      ELSE IF yaml.kind = "ok" THEN Returned("ok", format_rfc3339(yaml.v))
      ELSE Returned("err", << "Unable to parse datetime" >>)

\* the years, months and days of the dates read
YearTexts == { << "2", "0", "0", "1" >>, << "2", "0", "0", "2" >>, << "2", "0", "0", "4" >>, << "x", "x", "x", "x" >> }

MonthTexts == { << "1", "2" >>, << "1", "3" >>, << "x", "x" >>, << "2" >>, << "0" >>, << "0", "4" >> }

DayTexts == { << "1", "4" >>, << "1", "5" >>, << "x", "x" >>, << "3", "1" >>, << "2", "9" >>, << "0" >> }

\* a time after the date: what separates it, its fields and what follows
TimeText(sep, hour, minute, second, rest) ==
  [sep |-> sep, hour |-> hour, minute |-> minute, second |-> second, rest |-> rest]

\* the times of the tests of de.rs:153-201, and times out of range
TimeTexts ==
  { TimeText(<< "T" >>, << "0", "2" >>, << "5", "9" >>, << "4", "3" >>, << ".", "1", "Z" >>),
    TimeText(<< "t" >>, << "2", "1" >>, << "5", "9" >>, << "4", "3" >>, << ".", "1", "0", "-", "0", "5", ":", "0", "0" >>),
    TimeText(<< " " >>, << "2", "1" >>, << "5", "9" >>, << "4", "3" >>, << ".", "1", "0", " ", "-", "5" >>),
    TimeText(<< " " >>, << "2" >>, << "5", "9" >>, << "4", "3" >>, << ".", "1", "0" >>),
    TimeText(<< >>, << >>, << "6", "9" >>, << "4", "3" >>, << ".", "1", "Z" >>),
    TimeText(<< >>, << >>, << "5", "9" >>, << "4", "x" >>, << ".", "1", "Z" >>),
    TimeText(<< "T" >>, << "2", "4" >>, << "0", "0" >>, << "0", "0" >>, << >>),
    TimeText(<< "T" >>, << "0", "2" >>, << "6", "0" >>, << "4", "3" >>, << >>),
    TimeText(<< "T" >>, << "0", "2" >>, << "5", "9" >>, << "6", "0" >>, << >>),
    TimeText(<< "T" >>, << "0", "2" >>, << "5", "9" >>, << "4", "3" >>, << "+", "0", "5", ":", "0", "0" >>),
    TimeText(<< "T" >>, << "0", "2" >>, << "5", "9" >>, << "4", "3" >>, << >>) }

\* the string of a date: year-month-day, the time if there is one, and
\* double quotes around it if it is quoted
DateString(year, month, day, time, quoted) ==
  LET quote == IF quoted THEN << "\"" >> ELSE << >>
  IN  quote \o year \o << "-" >> \o month \o << "-" >> \o day
        \o (IF time.some
            THEN time.v.sep \o time.v.hour \o << ":" >> \o time.v.minute
                   \o << ":" >> \o time.v.second \o time.v.rest
            ELSE << >>)
        \o quote

\* what the calls below are given: the string and the parts it is made of
DateArgs(year, month, day, time, quoted) ==
  [year |-> year, month |-> month, day |-> day, time |-> time, quoted |-> quoted,
   value |-> StringValue(DateString(year, month, day, time, quoted))]

\* parse_yaml_datetime(date_string)
ParseYamlDatetime ==
  /\ eval.fn = "none"
  /\ \E year \in YearTexts, month \in MonthTexts, day \in DayTexts,
        time \in { None } \cup { Some(t) : t \in TimeTexts }, quoted \in BOOLEAN :
       LET date_args == DateArgs(year, month, day, time, quoted)
       IN  eval' = [fn |-> "parse_yaml_datetime", args |-> date_args,
                    out |-> parse_yaml_datetime(date_args.value.v)]
  /\ UNCHANGED << coreVars, libVars, treeVars >>

\* a front matter whose date is a string
FromUnknownDatetime ==
  /\ eval.fn = "none"
  /\ \E year \in YearTexts, month \in MonthTexts, day \in DayTexts,
        time \in { None } \cup { Some(t) : t \in TimeTexts }, quoted \in BOOLEAN :
       LET date_args == DateArgs(year, month, day, time, quoted)
       IN  eval' = [fn |-> "from_unknown_datetime", args |-> date_args,
                    out |-> from_unknown_datetime(date_args.value)]
  /\ UNCHANGED << coreVars, libVars, treeVars >>

\* a front matter whose date is a TOML datetime, or a number
FromKnownDatetime ==
  /\ eval.fn = "none"
  /\ \E value \in { DatetimeValue(<< "2", "0", "0", "2", "-", "1", "2", "-", "1", "4" >>), NumberValue("1") } :
       eval' = [fn |-> "from_unknown_datetime",
                args |-> [DateArgs(<< >>, << >>, << >>, None, FALSE)
                            EXCEPT !.value = value],
                out |-> from_unknown_datetime(value)]
  /\ UNCHANGED << coreVars, libVars, treeVars >>

DateNext == ParseYamlDatetime \/ FromUnknownDatetime \/ FromKnownDatetime

DateSpec == Init /\ [][DateNext]_vars

\* a string of lo to hi characters, all of them digits
Numeric(s, lo, hi) == Len(s) \in lo..hi /\ Range(s) \subseteq Digits

\* the year, the month or the day of the string read is not numeric
DateNotNumeric ==
  \/ ~Numeric(eval.args.year, 4, 4)
  \/ ~Numeric(eval.args.month, 1, 2)
  \/ ~Numeric(eval.args.day, 1, 2)

\* the month or the day of the string read is no month or no day of it
DateOutOfRange ==
  /\ ~DateNotNumeric
  /\ \/ ParseDigits(eval.args.month) \notin 1..12
     \/ ParseDigits(eval.args.day)
          \notin 1..days_in_month(ParseDigits(eval.args.year),
                                  ParseDigits(eval.args.month))

\* the hour, the minute or the second of the string read is out of range
TimeOutOfRange ==
  /\ eval.args.time.some
  /\ Numeric(eval.args.time.v.hour, 1, 2)
  /\ Numeric(eval.args.time.v.minute, 2, 2)
  /\ Numeric(eval.args.time.v.second, 2, 2)
  /\ \/ ParseDigits(eval.args.time.v.hour) > 23
     \/ ParseDigits(eval.args.time.v.minute) > 59
     \/ ParseDigits(eval.args.time.v.second) > 59

\* C28: parse_yaml_datetime returns an error for every string whose year,
\* month or day is not numeric or whose month, day, hour, minute or second
\* is out of range; from_unknown_datetime returns the error "Unable to
\* parse datetime" for every string that is neither a TOML nor a YAML
\* datetime, so for every string with a field that is not numeric or a
\* month out of range; and parse_yaml_datetime reads a valid date without a
\* time as that date at 00:00:00 with the offset of UTC.
C28_DatesAreRejectedNotDefaulted ==
  /\ eval.fn = "parse_yaml_datetime"
       => /\ (DateNotNumeric \/ DateOutOfRange \/ TimeOutOfRange)
               => eval.out.kind = "err"
          /\ (~DateNotNumeric /\ ~DateOutOfRange /\ ~eval.args.time.some)
               => /\ eval.out.kind = "ok"
                  /\ eval.out.v
                       = OffsetDateTime(ParseDigits(eval.args.year),
                                        ParseDigits(eval.args.month),
                                        ParseDigits(eval.args.day),
                                        0, 0, 0, 0, UtcOffset(0, 0))
  /\ (eval.fn = "from_unknown_datetime" /\ eval.args.value.t = "string")
       => /\ ( /\ toml_datetime_from_str(eval.args.value.v).kind = "err"
               /\ parse_yaml_datetime(eval.args.value.v).kind = "err" )
               => eval.out = Returned("err", << "Unable to parse datetime" >>)
          /\ ( \/ DateNotNumeric
               \/ (~DateNotNumeric /\ ParseDigits(eval.args.month) \notin 1..12) )
               => eval.out.kind = "err"

\* the test yaml_spec_invalid_dates_fail: 2001-13-15 is an error
C28_Witness ==
  /\ eval.fn = "parse_yaml_datetime"
  /\ eval.args.value.v = << "2", "0", "0", "1", "-", "1", "3", "-", "1", "5" >>
  /\ eval.out.kind = "err"

\* the test yaml_spec_examples_pass: 2002-12-14 is that day at 0:00:00 +0
C28_WitnessDateOnly ==
  /\ eval.fn = "parse_yaml_datetime"
  /\ eval.args.value.v = << "2", "0", "0", "2", "-", "1", "2", "-", "1", "4" >>
  /\ eval.out.kind = "ok"
  /\ eval.out.v = OffsetDateTime(2002, 12, 14, 0, 0, 0, 0, UtcOffset(0, 0))

\* the example 2001-12-14t21:59:43.10-05:00 of the same test
C28_WitnessOffset ==
  /\ eval.fn = "parse_yaml_datetime"
  /\ eval.args.value.v = << "2", "0", "0", "1", "-", "1", "2", "-", "1", "4", "t", "2", "1", ":", "5", "9", ":", "4", "3", ".", "1", "0", "-", "0", "5", ":", "0", "0" >>
  /\ eval.out.kind = "ok"
  /\ eval.out.v = OffsetDateTime(2001, 12, 14, 21, 59, 43, 100000000, UtcOffset(0 - 5, 0))

\* a string that neither parser reads is a deserialization error
C28_WitnessUnknown ==
  /\ eval.fn = "from_unknown_datetime"
  /\ eval.args.value = StringValue(<< "2", "0", "0", "1", "-", "x", "x", "-", "1", "5", "T", "0", "2", ":", "5", "9", ":", "4", "3", ".", "1", "Z" >>)
  /\ eval.out = Returned("err", << "Unable to parse datetime" >>)

\* a string that only the YAML parser reads comes out as RFC 3339
C28_WitnessYaml ==
  /\ eval.fn = "from_unknown_datetime"
  /\ eval.args.value = StringValue(<< "2", "0", "0", "1", "-", "1", "2", "-", "1", "5", " ", "2", ":", "5", "9", ":", "4", "3", ".", "1", "0" >>)
  /\ eval.out = Returned("ok", << "2", "0", "0", "1", "-", "1", "2", "-", "1", "5", "T", "0", "2", ":", "5", "9", ":", "4", "3", ".", "1", "Z" >>)

(***************************************************************************)
(* TOML datetimes in the values given to the templates (de.rs 94-144).  A   *)
(* JSON value is its type, the text of a scalar and the items of an array  *)
(* or the entries of an object; an entry of an object is a value with the  *)
(* key it is under, and a Map is the sequence of its entries in the order  *)
(* the map yields them.                                                    *)
(***************************************************************************)
JsonValue(t, s, items) == [t |-> t, k |-> "", s |-> s, items |-> items]

JsonString(s) == JsonValue("string", s, << >>)

JsonNumber(s) == JsonValue("number", s, << >>)

JsonObject(entries) == JsonValue("object", "", entries)

JsonArray(items) == JsonValue("array", "", items)

\* the entry of a map for a key
MapEntry(k, value) == [value EXCEPT !.k = k]

\* the value of an entry
ValueOf(entry) == [entry EXCEPT !.k = ""]

\* the key of the struct a TOML datetime is serialized as
PrivateDatetime == "$__toml_private_datetime"

\* a TOML datetime as serde gives it: a struct of one field, its string
DatetimeStruct == JsonObject(<< MapEntry(PrivateDatetime, JsonString("1979-05-27")) >>)

\* new.insert(k, v), for a key the map does not hold yet
MapInsert(new, k, v) == Append(new, MapEntry(k, v))

\* de.rs:96-115, from the entry i of the table on
RECURSIVE ConvertFrom(_, _, _)
ConvertFrom(table, i, new) ==
  IF i > Len(table) THEN JsonObject(new)
  ELSE IF table[i].k = PrivateDatetime THEN ValueOf(table[i])
  ELSE IF table[i].t = "object"
  THEN ConvertFrom(table, i + 1,
                   MapInsert(new, table[i].k, ConvertFrom(table[i].items, 1, << >>)))
  ELSE ConvertFrom(table, i + 1, MapInsert(new, table[i].k, ValueOf(table[i])))

convert_toml_date(table) == ConvertFrom(table, 1, << >>)

\* de.rs:119-144, from the entry i of the table on; FixArrayFrom is the
\* loop of lines 129-134 over the elements of an array
RECURSIVE FixFrom(_, _, _)
RECURSIVE FixArrayFrom(_, _, _)
FixFrom(table, i, new) ==
  IF i > Len(table) THEN JsonObject(new)
  ELSE IF table[i].t = "object"
  THEN FixFrom(table, i + 1,
               MapInsert(new, table[i].k, convert_toml_date(table[i].items)))
  ELSE IF table[i].t = "array"
  THEN FixFrom(table, i + 1,
               MapInsert(new, table[i].k,
                         JsonArray(FixArrayFrom(table[i].items, 1, << >>))))
  ELSE FixFrom(table, i + 1, MapInsert(new, table[i].k, ValueOf(table[i])))

FixArrayFrom(arr, i, new_arr) ==
  IF i > Len(arr) THEN new_arr
  ELSE IF arr[i].t = "object"
  THEN FixArrayFrom(arr, i + 1, Append(new_arr, FixFrom(arr[i].items, 1, << >>)))
  ELSE FixArrayFrom(arr, i + 1, Append(new_arr, arr[i]))

fix_toml_dates(table) == FixFrom(table, 1, << >>)

\* values that hold no object and no array, and a datetime
FlatValues == { JsonString("s"), JsonNumber("1"), DatetimeStruct }

\* objects and arrays of them
NestedOnce ==
  { JsonObject(<< MapEntry("k", x) >>) : x \in FlatValues }
    \cup { JsonArray(<< x >>) : x \in FlatValues }
    \cup { JsonArray(<< x, y >>) : x \in FlatValues, y \in FlatValues }

\* objects and arrays of those
NestedTwice ==
  { JsonObject(<< MapEntry("k", x) >>) : x \in NestedOnce }
    \cup { JsonArray(<< x >>) : x \in NestedOnce }

TableValues == FlatValues \cup NestedOnce \cup NestedTwice

\* the tables given to fix_toml_dates: one entry, or two
Tables ==
  { << MapEntry("a", x) >> : x \in TableValues }
    \cup { << MapEntry("a", x), MapEntry("b", y) >> : x \in TableValues, y \in FlatValues }

\* fix_toml_dates(table)
FixTomlDates ==
  /\ eval.fn = "none"
  /\ \E table \in Tables :
       eval' = [fn |-> "fix_toml_dates", args |-> table,
                out |-> fix_toml_dates(table)]
  /\ UNCHANGED << coreVars, libVars, treeVars >>

FixNext == FixTomlDates

FixSpec == Init /\ [][FixNext]_vars

\* a value is the struct of a TOML datetime
IsDatetimeStruct(value) ==
  value.t = "object" /\ \E i \in DOMAIN value.items : value.items[i].k = PrivateDatetime

\* the string a datetime struct holds
DatetimeString(value) ==
  ValueOf(value.items[CHOOSE i \in DOMAIN value.items :
                        value.items[i].k = PrivateDatetime])

\* a value with every datetime struct in it replaced by its string
RECURSIVE Stringified(_)
Stringified(value) ==
  IF IsDatetimeStruct(value) THEN MapEntry(value.k, DatetimeString(value))
  ELSE [value EXCEPT !.items = [i \in DOMAIN value.items |-> Stringified(value.items[i])]]

\* a value holds an array
RECURSIVE HoldsArray(_)
HoldsArray(value) ==
  \/ value.t = "array"
  \/ \E i \in DOMAIN value.items : HoldsArray(value.items[i])

\* C29: fix_toml_dates returns the table with every datetime struct
\* replaced by its string, wherever it is: the value of a key, nested in
\* objects, or an element of an array; everything else is unchanged.
C29_EveryDatetimeIsStringified ==
  eval.fn = "fix_toml_dates"
    => eval.out = Stringified(JsonObject(eval.args))

\* what holds of the code: the datetimes outside arrays are replaced
C29_DatetimesOutsideArraysAreStringified ==
  (eval.fn = "fix_toml_dates" /\ ~HoldsArray(JsonObject(eval.args)))
    => eval.out = Stringified(JsonObject(eval.args))

\* an array of one datetime comes back as it was given
C29_WitnessArrayOfDatetimes ==
  /\ eval.fn = "fix_toml_dates"
  /\ eval.args = << MapEntry("a", JsonArray(<< DatetimeStruct >>)) >>
  /\ eval.out = JsonObject(eval.args)

\* a datetime nested in two objects is replaced
C29_WitnessNested ==
  /\ eval.fn = "fix_toml_dates"
  /\ eval.args
       = << MapEntry("a", JsonObject(<< MapEntry("k", JsonObject(<< MapEntry("k", DatetimeStruct) >>)) >>)) >>
  /\ eval.out = Stringified(JsonObject(eval.args))
  /\ eval.out # JsonObject(eval.args)

(***************************************************************************)
(* What render_markdown leaves alone.                                      *)
(***************************************************************************)
\* C30: a call of Page::render_markdown or Section::render_markdown that
\* fails leaves the page or the section as it was, content, summary and toc
\* included; and no call, failed or not, changes the slug, the path, the
\* components or the permalink.
C30_FailedRenderChangesNothing ==
  [][/\ op' = "render_markdown"
          => /\ result' = "err" => page' = page
             /\ page'.v.slug = page.v.slug
             /\ page'.v.path = page.v.path
             /\ page'.v.components = page.v.components
             /\ page'.v.permalink = page.v.permalink
     /\ op' = "section_render_markdown"
          => /\ result' = "err" => section' = section
             /\ section'.v.path = section.v.path
             /\ section'.v.components = section.v.components
             /\ section'.v.permalink = section.v.permalink]_vars

\* a page that a first call rendered failed to render with another table,
\* and holds what the first call stored
C30_Witness ==
  /\ op = "render_markdown"
  /\ result = "err"
  /\ rendered.before.content # << >>
  /\ rendered.before.summary.some
  /\ Rendered(page.v.content, page.v.summary, page.v.toc) = rendered.before

\* the same of a section
C30_WitnessSection ==
  /\ op = "section_render_markdown"
  /\ result = "err"
  /\ rendered.before.content # << >>
  /\ Rendered(section.v.content, None, section.v.toc) = rendered.before
====
